---- MODULE Spec2Model ----
(***************************************************************************)
(* Model of Yolov4/export_onnx.py: the DarkNet -> ONNX translation.        *)
(*                                                                         *)
(* GraphBuilderONNX.build_onnx_graph walks the layer records once          *)
(* (_make_onnx_node and the five node creators), then builds the output    *)
(* heads (_make_transpose_node) and the final Concat, then opens the       *)
(* weights file (WeightLoader) and replays param_dict against it, and      *)
(* finally packs the graph.                                                *)
(*                                                                         *)
(* Strings the code builds by concatenation are modelled as records:       *)
(* '003_convolutional_lrelu' is [ord |-> 3, type |-> "convolutional",      *)
(* sfx |-> <<"lrelu">>].  Python's None is NoneName for a name and         *)
(* NoneChannels for a channel count.                                       *)
(***************************************************************************)
EXTENDS Integers, Sequences, FiniteSets, TLC

VARIABLES
    pc,                 \* position in build_onnx_graph: emit, heads, open, load, done, failed
    err,                \* the exception that ended the run ("" while none)
    layer_configs,      \* the layer records consumed so far, in order
    major_node_specs,   \* GraphBuilderONNX.major_node_specs
    nodes,              \* GraphBuilderONNX._nodes
    param_dict,         \* GraphBuilderONNX.param_dict (an OrderedDict: a sequence of entries)
    input_tensor,       \* GraphBuilderONNX.input_tensor
    batch_size,         \* GraphBuilderONNX.batch_size
    classes,            \* GraphBuilderONNX.classes
    num,                \* GraphBuilderONNX.num
    output_tensors,     \* GraphBuilderONNX.output_tensors (an OrderedDict: a sequence)
    neck,               \* build_onnx_graph's neck argument
    transposes,         \* build_onnx_graph's local list of head outputs
    total_grids,        \* build_onnx_graph's local total_grids, as <<numerator, denominator>>
    outputs,            \* build_onnx_graph's local outputs (the declared output tensor)
    weights_file,       \* WeightLoader.weights_file: [size, pos], or NoFile before it is opened
    loaded,             \* how many param_dict entries the replay loop has consumed
    initializer,        \* build_onnx_graph's local initializer list
    reads,              \* every read() issued on the weights file, in order
    graph_def,          \* GraphBuilderONNX.graph_def
    probe,              \* a lookup made on its own: the target index and what it resolved to
    cfg_file,           \* the text parse_cfg_file reads: the blocks it holds and how it ends
    remainder,          \* parse_cfg_file's local remainder: the text not parsed yet
    layer_counter       \* DarkNetParser.layer_counter

vars == <<pc, err, layer_configs, major_node_specs, nodes, param_dict, input_tensor,
          batch_size, classes, num, output_tensors, neck, transposes, total_grids,
          outputs, weights_file, loaded, initializer, reads, graph_def, probe,
          cfg_file, remainder, layer_counter>>

(***************************************************************************)
(* Bounds of the model.                                                    *)
(***************************************************************************)
MaxStreamLayers == 4
MaxShortcutLayers == 5
MaxRouteLayers == 5
MaxHistory == 4
MaxOffset == 5
MaxBlocks == 3
MaxRewindLayers == 7
MaxPassLayers == 5
MaxConvLayers == 3
MaxGraphLayers == 6

(***************************************************************************)
(* Program constants.                                                      *)
(***************************************************************************)
length_header == 5
FloatBytes == 4
DefaultBatchSize == 1
DefaultClasses == 80
DefaultNum == 9
BoxAttributes == 5
NoneChannels == -1

NoneName == [ord |-> -1, type |-> "None", sfx |-> <<>>]
NoSpecs == [name |-> NoneName, channels |-> NoneChannels, created_onnx_node |-> FALSE]
NoFile == [size |-> -1, pos |-> -1]
NoTensor == [name |-> NoneName, dims |-> <<>>]
NoGraph == [nodes |-> <<>>, inputs |-> <<>>, outputs |-> <<>>, initializer |-> <<>>, built |-> FALSE]
NoProbe == [target_index |-> 0, before |-> NoSpecs, after |-> NoSpecs, inserted |-> 0]
\* remainder is None: no text is left to the parser (main deletes the parser
\* before it builds the graph)
NoneText == <<[t |-> "None"]>>
NoCfgFile == [blocks |-> <<>>, ending |-> "None"]

\* layer_name: str(layer_counter).zfill(3) + '_' + layer_type
LayerName(ord, type) == [ord |-> ord, type |-> type, sfx |-> <<>>]

\* the name left without its suffix
Unsuffixed(name, suffix) == name

\* name + '_' + suffix
Suffixed(name, suffix) == [name EXCEPT !.sfx = @ \o <<suffix>>]

\* MajorNodeSpecs.__init__
MajorNodeSpecs(name, channels) ==
    [name |-> name,
     channels |-> channels,
     created_onnx_node |-> (name # NoneName /\ channels # NoneChannels /\ channels > 0)]

RECURSIVE Product(_)
Product(s) == IF s = <<>> THEN 1 ELSE Head(s) * Product(Tail(s))

RECURSIVE Sum(_)
Sum(s) == IF s = <<>> THEN 0 ELSE Head(s) + Sum(Tail(s))

Reverse(s) == [i \in 1..Len(s) |-> s[Len(s) + 1 - i]]

\* the list left as it is
WholeList(s, stop) == s

\* seq[:stop] of Python, for a negative stop
PyPrefix(s, stop) ==
    LET n == IF Len(s) + stop < 0 THEN 0 ELSE Len(s) + stop
    IN SubSeq(s, 1, n)

\* seq[start:] where seq[start::-1] was meant: the walk goes forward
PySliceForward(s, start) ==
    LET n == Len(s)
        from0 == IF start < 0
                 THEN (IF n + start < 0 THEN 0 ELSE n + start)
                 ELSE (IF start >= n THEN n ELSE start)
    IN SubSeq(s, from0 + 1, n)

\* seq[start::-1] of Python: from the start index (negative: counted from
\* the end, clamped as Python clamps a slice) down to the first element.
PySliceBack(s, start) ==
    LET n == Len(s)
        from0 == IF start < 0
                 THEN (IF n + start < 0 THEN -1 ELSE n + start)
                 ELSE (IF start >= n THEN n - 1 ELSE start)
    IN [i \in 1..(from0 + 1) |-> s[from0 + 2 - i]]

\* the walk without the test of created_onnx_node: the first entry met
FirstEntry(s) == IF s = <<>> THEN NoSpecs ELSE Head(s)

RECURSIVE FirstCreated(_)
FirstCreated(s) ==
    IF s = <<>> THEN NoSpecs
    ELSE IF Head(s).created_onnx_node THEN Head(s)
    ELSE FirstCreated(Tail(s))

\* GraphBuilderONNX._get_previous_node_specs; NoSpecs stands for the failed
\* assertion "previous_node is not None".
GetPreviousNodeSpecs(specs, target_index) ==
    FirstCreated(PySliceBack(specs, target_index))

Found(specs) == specs # NoSpecs


(***************************************************************************)
(* Results of the node creators: what _make_onnx_node gets back (name,     *)
(* channels) or the exception raised, with the nodes and param_dict        *)
(* entries the creator added and the major_node_specs it left.             *)
(***************************************************************************)
Raised(e) ==
    [ok |-> FALSE, err |-> e, name |-> NoneName, channels |-> NoneChannels,
     new_nodes |-> <<>>, new_params |-> <<>>, specs |-> major_node_specs]

Returned(name, channels, new_nodes, new_params, specs) ==
    [ok |-> TRUE, err |-> "", name |-> name, channels |-> channels,
     new_nodes |-> new_nodes, new_params |-> new_params, specs |-> specs]

\* helper.make_node
MakeNode(op, ins, out) == [op |-> op, inputs |-> ins, output |-> out]

\* ConvParams.generate_param_name (its assertions hold at every call site)
GenerateParamName(node_name, param_category, suffix) ==
    Suffixed(Suffixed(node_name, param_category), suffix)

\* every activation taken for linear: no node
ActivationNodesLinear(layer_name, activation, input) ==
    [new_nodes |-> <<>>, output |-> input]

\* every activation taken for leaky
ActivationNodesLeaky(layer_name, activation, input) ==
    [new_nodes |-> <<MakeNode("LeakyRelu", <<input>>, Suffixed(layer_name, "lrelu"))>>,
     output |-> Suffixed(layer_name, "lrelu")]

\* the activation part of _make_conv_node: the nodes added after the
\* tensor `input`, and the name of the last output
ActivationNodes(layer_name, activation, input) ==
    CASE activation = "leaky" ->
            [new_nodes |-> <<MakeNode("LeakyRelu", <<input>>, Suffixed(layer_name, "lrelu"))>>,
             output |-> Suffixed(layer_name, "lrelu")]
      [] activation = "relu" ->
            [new_nodes |-> <<MakeNode("Relu", <<input>>, Suffixed(layer_name, "relu"))>>,
             output |-> Suffixed(layer_name, "relu")]
      [] activation = "logistic" ->
            [new_nodes |-> <<MakeNode("Sigmoid", <<input>>, Suffixed(layer_name, "logistic"))>>,
             output |-> Suffixed(layer_name, "logistic")]
      [] activation = "mish" ->
            [new_nodes |->
                <<MakeNode("Softplus", <<input>>, Suffixed(layer_name, "softplus")),
                  MakeNode("Tanh", <<Suffixed(layer_name, "softplus")>>,
                           Suffixed(layer_name, "tanh")),
                  MakeNode("Mul", <<input, Suffixed(layer_name, "tanh")>>,
                           Suffixed(layer_name, "mish"))>>,
             output |-> Suffixed(layer_name, "mish")]
      [] OTHER -> [new_nodes |-> <<>>, output |-> input]

\* weights_shape without the division by groups
WeightsShapeUngrouped(filters, previous_channels, groups, kernel_size) ==
    <<filters, previous_channels, kernel_size, kernel_size>>

\* weights_shape of _make_conv_node
WeightsShape(filters, previous_channels, groups, kernel_size) ==
    <<filters, previous_channels \div groups, kernel_size, kernel_size>>

\* GraphBuilderONNX._make_conv_node
MakeConvNode(layer_name, layer_dict) ==
    LET previous_node_specs == GetPreviousNodeSpecs(major_node_specs, -1)
        filters == layer_dict.filters
        batch_normalize == "batch_normalize" \in DOMAIN layer_dict
                           /\ layer_dict.batch_normalize = 1
        groups == IF "groups" \in DOMAIN layer_dict THEN layer_dict.groups ELSE 1
        weights_shape == WeightsShape(filters, previous_node_specs.channels,
                                      groups, layer_dict.size)
        conv_params == [cls |-> "ConvParams", node_name |-> layer_name,
                        batch_normalize |-> batch_normalize,
                        conv_weight_dims |-> weights_shape]
        conv_inputs == <<previous_node_specs.name,
                         GenerateParamName(layer_name, "conv", "weights")>>
                       \o (IF batch_normalize THEN <<>>
                           ELSE <<GenerateParamName(layer_name, "conv", "bias")>>)
        conv_node == MakeNode("Conv", conv_inputs, layer_name)
        layer_name_bn == Suffixed(layer_name, "bn")
        bn_nodes == IF batch_normalize
                    THEN <<MakeNode("BatchNormalization",
                                    <<layer_name,
                                      GenerateParamName(layer_name, "bn", "scale"),
                                      GenerateParamName(layer_name, "bn", "bias"),
                                      GenerateParamName(layer_name, "bn", "mean"),
                                      GenerateParamName(layer_name, "bn", "var")>>,
                                    layer_name_bn)>>
                    ELSE <<>>
        pre_activation == IF batch_normalize THEN layer_name_bn ELSE layer_name
        act == ActivationNodes(layer_name, layer_dict.activation, pre_activation)
    IN IF ~Found(previous_node_specs) THEN Raised("AssertionError")
       ELSE Returned(act.output, filters,
                     <<conv_node>> \o bn_nodes \o act.new_nodes,
                     <<[key |-> layer_name, params |-> conv_params]>>,
                     major_node_specs)

\* a target one entry nearer than the record's from
ShortcutTargetNearer(shortcut_index) == shortcut_index + 1

\* target_index=shortcut_index of _make_shortcut_node
ShortcutTarget(shortcut_index) == shortcut_index

\* a shortcut that adds whatever it resolved
AnyChannels(first_node_specs, second_node_specs) == TRUE

\* assert first_node_specs.channels == second_node_specs.channels
SameChannels(first_node_specs, second_node_specs) ==
    first_node_specs.channels = second_node_specs.channels

\* GraphBuilderONNX._make_shortcut_node
MakeShortcutNode(layer_name, layer_dict) ==
    LET first_node_specs == GetPreviousNodeSpecs(major_node_specs, -1)
        second_node_specs == GetPreviousNodeSpecs(major_node_specs,
                                                  ShortcutTarget(layer_dict.from))
    IN IF layer_dict.activation # "linear" THEN Raised("AssertionError")
       ELSE IF ~Found(first_node_specs) \/ ~Found(second_node_specs)
       THEN Raised("AssertionError")
       ELSE IF ~SameChannels(first_node_specs, second_node_specs)
       THEN Raised("AssertionError")
       ELSE Returned(layer_name, first_node_specs.channels,
                     <<MakeNode("Add", <<first_node_specs.name, second_node_specs.name>>,
                                layer_name)>>,
                     <<>>, major_node_specs)

\* no name taken for a pool's
NeverMaxpool(name) == FALSE

\* 'maxpool' in name
IsMaxpoolName(name) == name.type = "maxpool"

\* the four index tensors of the Slice node: start, end, axes, steps
SliceParams(layer_name, channels) ==
    <<[cls |-> "StartParams", node_name |-> layer_name, value |-> <<channels \div 2>>],
      [cls |-> "EndParams", node_name |-> layer_name, value |-> <<channels>>],
      [cls |-> "AxesParams", node_name |-> layer_name, value |-> <<1>>],
      [cls |-> "StepParams", node_name |-> layer_name, value |-> <<1>>]>>

\* channels = channels // 2 of the slice branch
SliceChannels(channels) == channels \div 2

\* the loop of the multi-index branch of _make_route_node, from the i-th
\* index on: the inputs and channels accumulated, or the failed lookup
RECURSIVE RouteInputs(_, _, _, _, _)
RouteInputs(layer_name, route_node_indexes, i, ins, channels) ==
    IF i > Len(route_node_indexes)
    THEN [ok |-> TRUE, inputs |-> ins, channels |-> channels]
    ELSE LET raw == route_node_indexes[i]
             index == IF raw > 0 THEN raw + 1 ELSE raw
             naive == GetPreviousNodeSpecs(major_node_specs, index)
             corrected == layer_name.ord + index
             again == GetPreviousNodeSpecs(major_node_specs, corrected)
         IN IF ~Found(naive) THEN [ok |-> FALSE, inputs |-> ins, channels |-> channels]
            ELSE IF index < -1 /\ corrected # naive.name.ord
            THEN (IF ~Found(again)
                  THEN [ok |-> FALSE, inputs |-> ins, channels |-> channels]
                  ELSE RouteInputs(layer_name, route_node_indexes, i + 1,
                                   Append(ins, again.name), channels + again.channels))
            ELSE RouteInputs(layer_name, route_node_indexes, i + 1,
                             Append(ins, naive.name), channels + naive.channels)

\* channels = ... where channels += ... was meant: the last input's only
RouteChannelsLast(layer_name, route_node_indexes) ==
    LET all == RouteInputs(layer_name, route_node_indexes, 1, <<>>, 0)
        but_last == RouteInputs(layer_name,
                                SubSeq(route_node_indexes, 1, Len(route_node_indexes) - 1),
                                1, <<>>, 0)
    IN all.channels - but_last.channels

\* channels of the multi-index Concat: the sum accumulated by the loop
RouteChannels(layer_name, route_node_indexes) ==
    RouteInputs(layer_name, route_node_indexes, 1, <<>>, 0).channels

\* GraphBuilderONNX._make_route_node
MakeRouteNode(layer_name, layer_dict) ==
    LET route_node_indexes == layer_dict.layers
        split_index == route_node_indexes[1]
        prev_node_specs == GetPreviousNodeSpecs(major_node_specs, -1)
        input_node_specs == GetPreviousNodeSpecs(major_node_specs,
                                IF split_index < 0 THEN split_index ELSE split_index + 1)
        slice_name == Suffixed(layer_name, "slice")
        multi == RouteInputs(layer_name, route_node_indexes, 1, <<>>, 0)
    IN IF Len(route_node_indexes) = 1
       THEN IF ~Found(prev_node_specs) \/ ~Found(input_node_specs)
            THEN Raised("AssertionError")
            ELSE IF split_index = -4 /\ ~IsMaxpoolName(prev_node_specs.name)
            THEN Returned(NoneName, NoneChannels, <<>>, <<>>,
                          PyPrefix(major_node_specs, split_index + 1))
            ELSE IF "groups" \in DOMAIN layer_dict
            THEN IF layer_dict.groups # 2 \/ layer_dict.group_id # 1
                 THEN Raised("AssertionError")
                 ELSE Returned(layer_name, SliceChannels(input_node_specs.channels),
                               <<MakeNode("Slice",
                                          <<input_node_specs.name,
                                            Suffixed(layer_name, "start"),
                                            Suffixed(layer_name, "end"),
                                            Suffixed(layer_name, "axes"),
                                            Suffixed(layer_name, "step")>>,
                                          layer_name)>>,
                               <<[key |-> slice_name,
                                  params |-> SliceParams(layer_name,
                                                         input_node_specs.channels)]>>,
                               major_node_specs)
            ELSE Returned(layer_name, input_node_specs.channels,
                          <<MakeNode("Concat", <<input_node_specs.name>>, layer_name)>>,
                          <<>>, major_node_specs)
       ELSE IF ~multi.ok \/ multi.inputs = <<>>
                 \/ RouteChannels(layer_name, route_node_indexes) <= 0
            THEN Raised("AssertionError")
            ELSE Returned(layer_name, RouteChannels(layer_name, route_node_indexes),
                          <<MakeNode("Concat", multi.inputs, layer_name)>>,
                          <<>>, major_node_specs)

\* GraphBuilderONNX._make_resize_node
MakeResizeNode(layer_name, layer_dict) ==
    LET previous_node_specs == GetPreviousNodeSpecs(major_node_specs, -1)
        resize_params == [cls |-> "ResizeParams", node_name |-> layer_name,
                          value |-> <<1, 1, layer_dict.stride, layer_dict.stride>>]
    IN IF ~Found(previous_node_specs) THEN Raised("AssertionError")
       ELSE Returned(layer_name, previous_node_specs.channels,
                     <<MakeNode("Resize",
                                <<previous_node_specs.name,
                                  Suffixed(layer_name, "roi"),
                                  Suffixed(layer_name, "scale")>>,
                                layer_name)>>,
                     <<[key |-> layer_name, params |-> resize_params]>>,
                     major_node_specs)

\* GraphBuilderONNX._make_maxpool_node
MakeMaxpoolNode(layer_name, layer_dict) ==
    LET previous_node_specs == GetPreviousNodeSpecs(major_node_specs, -1)
    IN IF ~Found(previous_node_specs) THEN Raised("AssertionError")
       ELSE Returned(layer_name, previous_node_specs.channels,
                     <<MakeNode("MaxPool", <<previous_node_specs.name>>, layer_name)>>,
                     <<>>, major_node_specs)


(***************************************************************************)
(* The layer records the model feeds to build_onnx_graph.                  *)
(***************************************************************************)
Net416 == [type |-> "net", batch |-> 1, channels |-> 3, height |-> 416, width |-> 416]
Net608 == [type |-> "net", batch |-> 2, channels |-> 3, height |-> 608, width |-> 608]

Conv32 == [type |-> "convolutional", batch_normalize |-> 1, filters |-> 32, size |-> 3,
           stride |-> 1, pad |-> 1, activation |-> "leaky"]
Conv64 == [type |-> "convolutional", filters |-> 64, size |-> 1,
           stride |-> 1, pad |-> 1, activation |-> "linear"]
Conv128 == [type |-> "convolutional", batch_normalize |-> 1, filters |-> 128, size |-> 3,
            stride |-> 2, pad |-> 1, groups |-> 2, activation |-> "mish"]
Conv3 == [type |-> "convolutional", filters |-> 3, size |-> 1,
          stride |-> 1, pad |-> 1, activation |-> "relu"]

ConvLogistic == [type |-> "convolutional", filters |-> 16, size |-> 3,
                 stride |-> 1, pad |-> 1, activation |-> "logistic"]
ConvSwish == [type |-> "convolutional", batch_normalize |-> 1, filters |-> 16, size |-> 1,
              stride |-> 1, pad |-> 1, activation |-> "swish"]
ConvMish == [type |-> "convolutional", batch_normalize |-> 0, filters |-> 8, size |-> 3,
             stride |-> 1, pad |-> 1, activation |-> "mish"]

ShortcutFrom2 == [type |-> "shortcut", from |-> -2, activation |-> "linear"]
ShortcutFrom3 == [type |-> "shortcut", from |-> -3, activation |-> "linear"]
ShortcutLeaky == [type |-> "shortcut", from |-> -2, activation |-> "leaky"]

RouteLast == [type |-> "route", layers |-> <<-1>>]
RouteBack3 == [type |-> "route", layers |-> <<-3>>]
RouteRewind == [type |-> "route", layers |-> <<-4>>]
RouteBack5 == [type |-> "route", layers |-> <<-1, -5>>]
RouteSlice == [type |-> "route", layers |-> <<-1>>, groups |-> 2, group_id |-> 1]
RouteLowerHalf == [type |-> "route", layers |-> <<-1>>, groups |-> 2, group_id |-> 0]
RouteAbs1 == [type |-> "route", layers |-> <<1>>]
RouteConcat == [type |-> "route", layers |-> <<-1, -3>>]
RouteMixed == [type |-> "route", layers |-> <<-2, 1>>]

Upsample2 == [type |-> "upsample", stride |-> 2]
Maxpool2 == [type |-> "maxpool", size |-> 2, stride |-> 2]
Yolo == [type |-> "yolo", mask |-> <<"0", "1", "2">>, classes |-> 2, num |-> 6]

StreamLayers == {Net416, Conv32, Conv64, Conv128, Upsample2, RouteSlice, RouteBack3}
ShortcutLayers == {Net416, Net608, Conv32, Conv64, Conv3, ShortcutFrom2, ShortcutFrom3,
                   ShortcutLeaky, Yolo}
RouteLayers == {Net416, Conv64, Conv128, Maxpool2, RouteLast, RouteSlice, RouteConcat,
                RouteMixed}
RewindLayers == {Net416, Conv64, Maxpool2, RouteRewind, RouteBack5}
ConvLayers == {Net416, Conv32, Conv64, Conv128, Conv3, ConvLogistic, ConvSwish, ConvMish}
GraphLayers == {Net416, Conv32, Conv64, ShortcutFrom2, RouteConcat, RouteRewind, RouteSlice,
                Upsample2, Maxpool2, Yolo}
PassLayers == {Net416, Conv64, Maxpool2, RouteLast, RouteBack3, RouteRewind, RouteSlice,
               RouteLowerHalf, RouteAbs1}

\* the output heads given to GraphBuilderONNX.__init__: name -> [channels, width, height]
Head13 == [name |-> LayerName(1, "convolutional"), dims |-> <<255, 13, 13>>]
Head26 == [name |-> LayerName(2, "convolutional"), dims |-> <<255, 26, 26>>]

NodeCreators == {"convolutional", "shortcut", "route", "upsample", "maxpool"}

(***************************************************************************)
(* build_onnx_graph, first loop: one layer record per step.                *)
(***************************************************************************)
\* param_dict[key] = params of an OrderedDict: a new key goes last, a known
\* key keeps its place
PutParam(pd, entry) ==
    IF \E i \in 1..Len(pd) : pd[i].key = entry.key
    THEN [i \in 1..Len(pd) |-> IF pd[i].key = entry.key THEN entry ELSE pd[i]]
    ELSE Append(pd, entry)

\* a registry that holds the newest bindings only
OnlyNewParams(pd, entries) == entries

RECURSIVE PutParams(_, _)
PutParams(pd, entries) ==
    IF entries = <<>> THEN pd
    ELSE PutParams(PutParam(pd, Head(entries)), Tail(entries))

\* the specs appended whatever their name
AppendAlways(specs, name, channels) == Append(specs, MajorNodeSpecs(name, channels))

\* lines 543-544: the specs are kept when their name is not None
KeepSpecs(specs, name, channels) ==
    IF name # NoneName THEN Append(specs, MajorNodeSpecs(name, channels)) ELSE specs

LaterUnchanged ==
    UNCHANGED <<output_tensors, neck, transposes, total_grids, outputs, weights_file,
                loaded, initializer, reads, graph_def, probe, cfg_file, remainder,
                layer_counter>>

\* what one pass of the loop does with the result of a node creator
Emitted(layer_name, layer_dict, r) ==
    /\ layer_configs' = Append(layer_configs, [name |-> layer_name, dict |-> layer_dict])
    /\ IF r.ok
       THEN /\ nodes' = nodes \o r.new_nodes
            /\ param_dict' = PutParams(param_dict, r.new_params)
            /\ major_node_specs' = KeepSpecs(r.specs, r.name, r.channels)
            /\ UNCHANGED <<pc, err>>
       ELSE /\ pc' = "failed"
            /\ err' = r.err
            /\ UNCHANGED <<nodes, param_dict, major_node_specs>>
    /\ LaterUnchanged

NextLayerName(type) == LayerName(Len(layer_configs), type)

\* a net record taken for the first node wherever it comes
FirstNodeOrNet(tensor, layer_type) == tensor = NoTensor \/ layer_type = "net"

\* self.input_tensor is None: the record goes to the first-node branch
FirstNode(tensor, layer_type) == tensor = NoTensor

\* _make_onnx_node, first record of type net: _make_input_tensor
MakeInputTensor(layer_dict) ==
    /\ pc = "emit"
    /\ FirstNode(input_tensor, layer_dict.type)
    /\ layer_dict.type = "net"
    /\ input_tensor' = [name |-> NextLayerName("net"),
                        dims |-> <<layer_dict.batch, layer_dict.channels,
                                   layer_dict.height, layer_dict.width>>]
    /\ batch_size' = layer_dict.batch
    /\ Emitted(NextLayerName("net"), layer_dict,
               Returned(NextLayerName("net"), layer_dict.channels, <<>>, <<>>,
                        major_node_specs))
    /\ UNCHANGED <<classes, num>>

\* _make_onnx_node, first record of another type: ValueError
FirstNodeNotNet(layer_dict) ==
    /\ pc = "emit"
    /\ FirstNode(input_tensor, layer_dict.type)
    /\ layer_dict.type # "net"
    /\ Emitted(NextLayerName(layer_dict.type), layer_dict, Raised("ValueError"))
    /\ UNCHANGED <<input_tensor, batch_size, classes, num>>

\* _make_onnx_node dispatching to a node creator
Creates(layer_dict, type) ==
    /\ pc = "emit"
    /\ ~FirstNode(input_tensor, layer_dict.type)
    /\ layer_dict.type = type
    /\ UNCHANGED <<input_tensor, batch_size, classes, num>>

EmitConvolutional(layer_dict) ==
    /\ Creates(layer_dict, "convolutional")
    /\ Emitted(NextLayerName("convolutional"), layer_dict,
               MakeConvNode(NextLayerName("convolutional"), layer_dict))

EmitShortcut(layer_dict) ==
    /\ Creates(layer_dict, "shortcut")
    /\ Emitted(NextLayerName("shortcut"), layer_dict,
               MakeShortcutNode(NextLayerName("shortcut"), layer_dict))

EmitRoute(layer_dict) ==
    /\ Creates(layer_dict, "route")
    /\ Emitted(NextLayerName("route"), layer_dict,
               MakeRouteNode(NextLayerName("route"), layer_dict))

EmitUpsample(layer_dict) ==
    /\ Creates(layer_dict, "upsample")
    /\ Emitted(NextLayerName("upsample"), layer_dict,
               MakeResizeNode(NextLayerName("upsample"), layer_dict))

EmitMaxpool(layer_dict) ==
    /\ Creates(layer_dict, "maxpool")
    /\ Emitted(NextLayerName("maxpool"), layer_dict,
               MakeMaxpoolNode(NextLayerName("maxpool"), layer_dict))

\* _make_onnx_node, a type without a node creator (lines 646-654)
SkipUnsupported(layer_dict) ==
    /\ pc = "emit"
    /\ ~FirstNode(input_tensor, layer_dict.type)
    /\ layer_dict.type \notin NodeCreators
    /\ IF layer_dict.type = "yolo"
       THEN classes' = layer_dict.classes /\ num' = layer_dict.num
       ELSE UNCHANGED <<classes, num>>
    /\ Emitted(NextLayerName(layer_dict.type), layer_dict,
               Returned(NextLayerName(layer_dict.type), NoneChannels, <<>>, <<>>,
                        major_node_specs))
    /\ UNCHANGED <<input_tensor, batch_size>>

\* the first loop has gone through every record (main reads
\* layer_configs['000_net'] first, so there is at least one)
EndOfLayers ==
    /\ pc = "emit"
    /\ layer_configs # <<>>
    /\ pc' = "heads"
    /\ UNCHANGED <<err, layer_configs, major_node_specs, nodes, param_dict, input_tensor,
                   batch_size, classes, num>>
    /\ LaterUnchanged


(***************************************************************************)
(* build_onnx_graph, lines 546-574: the output heads and the final Concat. *)
(***************************************************************************)
OutputName == [ord |-> -1, type |-> "ouputs", sfx |-> <<>>]

EmissionUnchanged ==
    UNCHANGED <<layer_configs, major_node_specs, input_tensor, batch_size, classes, num,
                output_tensors, neck, probe, cfg_file, remainder, layer_counter>>

\* the first Reshape's shape in _make_transpose_node
HeadShape(output_dims, output_len) ==
    <<output_dims[1], num \div output_len, classes + BoxAttributes,
      output_dims[Len(output_dims) - 1], output_dims[Len(output_dims)]>>

\* one pass of the loop over output_tensors, with _make_transpose_node.
\* total_grids is a float in the code, the sum of grids / (classes + 5); it
\* is kept here as the exact fraction <<sum of grids, classes + 5>>.
MakeTransposeNode ==
    /\ pc = "heads"
    /\ Len(transposes) < Len(output_tensors)
    /\ LET head == output_tensors[Len(transposes) + 1]
           layer_name == head.name
           output_dims == <<batch_size>> \o head.dims
           reshape_name == Suffixed(layer_name, "reshape_1")
           transpose_name == Suffixed(layer_name, "transpose")
           output_name == Suffixed(layer_name, "reshape_2")
       IN /\ total_grids' = <<total_grids[1] + Product(head.dims), classes + BoxAttributes>>
          /\ nodes' = nodes \o
                <<MakeNode("Reshape", <<layer_name, Suffixed(layer_name, "shape")>>,
                           reshape_name),
                  MakeNode("Transpose", <<reshape_name>>, transpose_name),
                  MakeNode("Reshape", <<transpose_name, Suffixed(transpose_name, "shape")>>,
                           output_name)>>
          /\ param_dict' = PutParams(param_dict,
                <<[key |-> reshape_name,
                   params |-> [cls |-> "ReshapeParams", node_name |-> layer_name,
                               value |-> HeadShape(output_dims, Len(output_tensors))]],
                  [key |-> output_name,
                   params |-> [cls |-> "ReshapeParams", node_name |-> transpose_name,
                               value |-> <<output_dims[1], -1, classes + BoxAttributes>>]]>>)
          /\ transposes' = Append(transposes, output_name)
    /\ UNCHANGED <<pc, err, outputs, weights_file, loaded, initializer, reads, graph_def>>
    /\ EmissionUnchanged

\* the heads left in the order they were declared in, whatever the neck
DeclaredOrder(heads, topology) == heads

\* transposes[::-1] when neck == 'FPN'
OrderedHeads(heads, topology) == IF topology = "FPN" THEN Reverse(heads) ELSE heads

\* lines 559-574: the final Concat node and the declared output
FinalConcat ==
    /\ pc = "heads"
    /\ Len(transposes) = Len(output_tensors)
    /\ transposes' = OrderedHeads(transposes, neck)
    /\ nodes' = Append(nodes, MakeNode("Concat", transposes', OutputName))
    /\ outputs' = [name |-> OutputName,
                   dims |-> <<batch_size, total_grids[1] \div total_grids[2],
                              classes + BoxAttributes>>]
    /\ pc' = "open"
    /\ UNCHANGED <<err, param_dict, total_grids, weights_file, loaded, initializer, reads,
                   graph_def>>
    /\ EmissionUnchanged

(***************************************************************************)
(* WeightLoader: the weights file and the replay of param_dict.            *)
(***************************************************************************)
HeaderBytes == length_header * FloatBytes

\* a read that makes up the bytes the file does not hold
FileReadPadded(file, nbytes) == nbytes

\* file.read(nbytes): the bytes still in the file, at most nbytes
FileRead(file, nbytes) ==
    IF file.size - file.pos < nbytes THEN file.size - file.pos ELSE nbytes

\* a reader that takes whatever the file still holds
BufferAlwaysFits(got, nbytes) == TRUE

\* np.ndarray(shape, buffer=...): TypeError when the buffer holds fewer
\* bytes than the shape needs
BufferFits(got, nbytes) == got >= nbytes

\* the reads issued in the order the tensors are listed (scale before bias)
ConvReadOrderAsListed(conv_params) ==
    IF conv_params.batch_normalize
    THEN <<<<"bn", "scale">>, <<"bn", "bias">>, <<"bn", "mean">>, <<"bn", "var">>,
           <<"conv", "weights">>>>
    ELSE <<<<"conv", "bias">>, <<"conv", "weights">>>>

\* the (category, suffix) order in which load_conv_weights reads the file
ConvReadOrder(conv_params) ==
    IF conv_params.batch_normalize
    THEN <<<<"bn", "bias">>, <<"bn", "scale">>, <<"bn", "mean">>, <<"bn", "var">>,
           <<"conv", "weights">>>>
    ELSE <<<<"conv", "bias">>, <<"conv", "weights">>>>

\* the order in which load_conv_weights lists the tensors it has read
ConvInitOrder(conv_params) ==
    IF conv_params.batch_normalize THEN <<2, 1, 3, 4, 5>> ELSE <<1, 2>>

\* param_shape of _load_one_param_type
ParamShape(conv_params, param_category, suffix) ==
    IF param_category = "conv" /\ suffix = "weights"
    THEN conv_params.conv_weight_dims
    ELSE <<conv_params.conv_weight_dims[1]>>

\* _load_one_param_type and _create_param_tensors for the reads of one
\* convolution, from the i-th on: the file, the reads issued and the tensors
\* made, or the TypeError of a short read
RECURSIVE LoadConvParams(_, _, _, _, _, _)
LoadConvParams(conv_params, order, i, file, log, tensors) ==
    IF i > Len(order)
    THEN [ok |-> TRUE, file |-> file, reads |-> log, tensors |-> tensors]
    ELSE LET param_shape == ParamShape(conv_params, order[i][1], order[i][2])
             nbytes == Product(param_shape) * FloatBytes
             got == FileRead(file, nbytes)
             read == [name |-> GenerateParamName(conv_params.node_name,
                                                 order[i][1], order[i][2]),
                      offset |-> file.pos, nbytes |-> nbytes, got |-> got]
             after == [file EXCEPT !.pos = @ + got]
         IN IF ~BufferFits(got, nbytes)
            THEN [ok |-> FALSE, file |-> after, reads |-> Append(log, read),
                  tensors |-> tensors]
            ELSE LoadConvParams(conv_params, order, i + 1, after, Append(log, read),
                                Append(tensors,
                                       [name |-> read.name, dims |-> param_shape,
                                        count |-> got \div FloatBytes,
                                        offset |-> file.pos]))

\* WeightLoader.load_conv_weights
LoadConvWeights(conv_params, file) ==
    LET r == LoadConvParams(conv_params, ConvReadOrder(conv_params), 1, file, <<>>, <<>>)
    IN IF r.ok
       THEN [r EXCEPT !.tensors = [i \in 1..Len(r.tensors) |->
                                      r.tensors[ConvInitOrder(conv_params)[i]]]]
       ELSE r

\* a tensor made from a value the emitter computed
ConstantTensor(name, value) ==
    [name |-> name, dims |-> <<Len(value)>>, count |-> Len(value), offset |-> -1]

\* WeightLoader.load_resize_scales
LoadResizeScales(resize_params) ==
    <<ConstantTensor(Suffixed(resize_params.node_name, "roi"), <<>>),
      ConstantTensor(Suffixed(resize_params.node_name, "scale"), resize_params.value)>>

\* WeightLoader.load_reshape_scales
LoadReshapeScales(reshape_params) ==
    <<ConstantTensor(Suffixed(reshape_params.node_name, "shape"), reshape_params.value)>>

SliceSuffix(cls) ==
    CASE cls = "StartParams" -> "start"
      [] cls = "EndParams" -> "end"
      [] cls = "AxesParams" -> "axes"
      [] OTHER -> "step"

\* WeightLoader.load_slice_params
LoadSliceParams(slice_params) ==
    [i \in 1..Len(slice_params) |->
        ConstantTensor(Suffixed(slice_params[i].node_name, SliceSuffix(slice_params[i].cls)),
                       slice_params[i].value)]

\* layer_name.split('_', 1)[1] and the tests of lines 583-597 on it
HasToken(key, tokens) == \E i \in 1..Len(key.sfx) : key.sfx[i] \in tokens
IsConvKey(key) == key.type = "convolutional" /\ key.sfx = <<>>
IsUpsampleKey(key) == key.type = "upsample" /\ key.sfx = <<>>
IsReshapeKey(key) == HasToken(key, {"reshape_1", "reshape_2"})
IsSliceKey(key) == HasToken(key, {"slice"})

\* every read the replay of pd will issue after the header, as byte counts
RECURSIVE PlannedReads(_)
PlannedReads(pd) ==
    IF pd = <<>> THEN <<>>
    ELSE (IF IsConvKey(Head(pd).key)
          THEN [i \in 1..Len(ConvReadOrder(Head(pd).params)) |->
                   Product(ParamShape(Head(pd).params,
                                      ConvReadOrder(Head(pd).params)[i][1],
                                      ConvReadOrder(Head(pd).params)[i][2])) * FloatBytes]
          ELSE <<>>) \o PlannedReads(Tail(pd))

\* the sizes of weights file the model tries: the exact one, one float more,
\* one float short of the end of each read, and a file cut inside the header
FileSizes(pd, short_files) ==
    LET plan == PlannedReads(pd)
        ends == {HeaderBytes + Sum(SubSeq(plan, 1, k)) : k \in 0..Len(plan)}
        exact == HeaderBytes + Sum(plan)
    IN IF short_files
       THEN {e - FloatBytes : e \in ends} \cup {0, exact, exact + FloatBytes}
       ELSE {exact}

LoadUnchanged ==
    UNCHANGED <<nodes, param_dict, transposes, total_grids, outputs>>

\* a loader made while the records are still being emitted
LoaderDueEarly(position) == position \in {"emit", "open"}

\* weight_loader = WeightLoader(weights_file_path) comes after the final
\* Concat and the declared output
LoaderDue(position) == position = "open"

\* WeightLoader.__init__ and _open_weights_file on a file of `size` bytes
OpenWeightsFile(size) ==
    /\ LoaderDue(pc)
    /\ LET file == [size |-> size, pos |-> 0]
           got == FileRead(file, HeaderBytes)
       IN /\ weights_file' = [file EXCEPT !.pos = got]
          /\ reads' = Append(reads, [name |-> NoneName, offset |-> 0,
                                     nbytes |-> HeaderBytes, got |-> got])
          /\ IF BufferFits(got, HeaderBytes)
             THEN pc' = "load" /\ err' = err
             ELSE pc' = "failed" /\ err' = "TypeError"
    /\ UNCHANGED <<loaded, initializer, graph_def>>
    /\ LoadUnchanged
    /\ EmissionUnchanged

\* one pass of the loop over param_dict (lines 580-600)
LoadParams ==
    /\ pc = "load"
    /\ loaded < Len(param_dict)
    /\ LET entry == param_dict[loaded + 1]
           conv == LoadConvWeights(entry.params, weights_file)
       IN IF IsConvKey(entry.key)
          THEN /\ weights_file' = conv.file
               /\ reads' = reads \o conv.reads
               /\ IF conv.ok
                  THEN /\ initializer' = initializer \o conv.tensors
                       /\ loaded' = loaded + 1
                       /\ UNCHANGED <<pc, err>>
                  ELSE /\ pc' = "failed"
                       /\ err' = "TypeError"
                       /\ UNCHANGED <<initializer, loaded>>
          ELSE /\ initializer' = initializer \o
                        (IF IsUpsampleKey(entry.key) THEN LoadResizeScales(entry.params)
                         ELSE IF IsReshapeKey(entry.key) THEN LoadReshapeScales(entry.params)
                         ELSE IF IsSliceKey(entry.key) THEN LoadSliceParams(entry.params)
                         ELSE <<>>)
               /\ loaded' = loaded + 1
               /\ UNCHANGED <<pc, err, weights_file, reads>>
    /\ UNCHANGED graph_def
    /\ LoadUnchanged
    /\ EmissionUnchanged

\* helper.make_graph (lines 602-608)
MakeGraph ==
    /\ pc = "load"
    /\ loaded = Len(param_dict)
    /\ graph_def' = [nodes |-> nodes,
                     inputs |-> <<input_tensor.name>> \o
                                [i \in 1..Len(initializer) |-> initializer[i].name],
                     outputs |-> <<outputs>>,
                     initializer |-> initializer,
                     built |-> TRUE]
    /\ pc' = "done"
    /\ UNCHANGED <<err, weights_file, loaded, initializer, reads>>
    /\ LoadUnchanged
    /\ EmissionUnchanged

(***************************************************************************)
(* Specifications.                                                         *)
(***************************************************************************)
\* GraphBuilderONNX.__init__, and the arguments of build_onnx_graph
InitWith(head_choices, neck_choices) ==
    /\ pc = "emit"
    /\ err = ""
    /\ layer_configs = <<>>
    /\ major_node_specs = <<>>
    /\ nodes = <<>>
    /\ param_dict = <<>>
    /\ input_tensor = NoTensor
    /\ batch_size = DefaultBatchSize
    /\ classes = DefaultClasses
    /\ num = DefaultNum
    /\ output_tensors \in head_choices
    /\ neck \in neck_choices
    /\ transposes = <<>>
    /\ total_grids = <<0, 1>>
    /\ outputs = NoTensor
    /\ weights_file = NoFile
    /\ loaded = 0
    /\ initializer = <<>>
    /\ reads = <<>>
    /\ graph_def = NoGraph
    /\ probe = NoProbe
    /\ cfg_file = NoCfgFile
    /\ remainder = NoneText
    /\ layer_counter = 0

\* the records the loop may meet next: none once max_layers were consumed
Upto(max_layers, layers) == IF Len(layer_configs) < max_layers THEN layers ELSE {}

\* the weight stream: convolutions, resizes and slices, files of every length
Init == InitWith({<<>>, <<Head13, Head26>>}, {"PAN", "FPN"})

Next ==
    \/ \E layer_dict \in Upto(MaxStreamLayers, StreamLayers) : MakeInputTensor(layer_dict)
    \/ \E layer_dict \in Upto(MaxStreamLayers, StreamLayers) : FirstNodeNotNet(layer_dict)
    \/ \E layer_dict \in Upto(MaxStreamLayers, StreamLayers) : EmitConvolutional(layer_dict)
    \/ \E layer_dict \in Upto(MaxStreamLayers, StreamLayers) : EmitRoute(layer_dict)
    \/ \E layer_dict \in Upto(MaxStreamLayers, StreamLayers) : EmitUpsample(layer_dict)
    \/ EndOfLayers
    \/ MakeTransposeNode
    \/ FinalConcat
    \/ \E size \in FileSizes(param_dict, TRUE) : OpenWeightsFile(size)
    \/ LoadParams
    \/ MakeGraph

Spec == Init /\ [][Next]_vars


\* residual blocks: convolutions, shortcuts and a skipped detection head
InitShortcut == InitWith({<<Head13>>}, {"PAN"})

NextShortcut ==
    \/ \E layer_dict \in Upto(MaxShortcutLayers, ShortcutLayers) : MakeInputTensor(layer_dict)
    \/ \E layer_dict \in Upto(MaxShortcutLayers, ShortcutLayers) : FirstNodeNotNet(layer_dict)
    \/ \E layer_dict \in Upto(MaxShortcutLayers, ShortcutLayers) : EmitConvolutional(layer_dict)
    \/ \E layer_dict \in Upto(MaxShortcutLayers, ShortcutLayers) : EmitShortcut(layer_dict)
    \/ \E layer_dict \in Upto(MaxShortcutLayers, ShortcutLayers) : SkipUnsupported(layer_dict)
    \/ EndOfLayers
    \/ MakeTransposeNode
    \/ FinalConcat
    \/ \E size \in FileSizes(param_dict, FALSE) : OpenWeightsFile(size)
    \/ LoadParams
    \/ MakeGraph

SpecShortcut == InitShortcut /\ [][NextShortcut]_vars

\* routes: pass-through, slice and concatenation over convolutions and pools
InitRoute == InitWith({<<Head13>>}, {"PAN"})

NextRoute ==
    \/ \E layer_dict \in Upto(MaxRouteLayers, RouteLayers) : MakeInputTensor(layer_dict)
    \/ \E layer_dict \in Upto(MaxRouteLayers, RouteLayers) : FirstNodeNotNet(layer_dict)
    \/ \E layer_dict \in Upto(MaxRouteLayers, RouteLayers) : EmitConvolutional(layer_dict)
    \/ \E layer_dict \in Upto(MaxRouteLayers, RouteLayers) : EmitRoute(layer_dict)
    \/ \E layer_dict \in Upto(MaxRouteLayers, RouteLayers) : EmitMaxpool(layer_dict)
    \/ \E layer_dict \in Upto(MaxRouteLayers, RouteLayers) : SkipUnsupported(layer_dict)
    \/ EndOfLayers
    \/ MakeTransposeNode
    \/ FinalConcat
    \/ \E size \in FileSizes(param_dict, FALSE) : OpenWeightsFile(size)
    \/ LoadParams
    \/ MakeGraph

SpecRoute == InitRoute /\ [][NextRoute]_vars

\* rewinds: routes of layers=-4 past skipped records, and routes that reach
\* behind them
InitRewind == InitWith({<<Head13>>}, {"PAN"})

NextRewind ==
    \/ \E layer_dict \in Upto(MaxRewindLayers, RewindLayers) : MakeInputTensor(layer_dict)
    \/ \E layer_dict \in Upto(MaxRewindLayers, RewindLayers) : FirstNodeNotNet(layer_dict)
    \/ \E layer_dict \in Upto(MaxRewindLayers, RewindLayers) : EmitConvolutional(layer_dict)
    \/ \E layer_dict \in Upto(MaxRewindLayers, RewindLayers) : EmitRoute(layer_dict)
    \/ \E layer_dict \in Upto(MaxRewindLayers, RewindLayers) : EmitMaxpool(layer_dict)
    \/ \E layer_dict \in Upto(MaxRewindLayers, RewindLayers) : SkipUnsupported(layer_dict)
    \/ EndOfLayers
    \/ MakeTransposeNode
    \/ FinalConcat
    \/ \E size \in FileSizes(param_dict, FALSE) : OpenWeightsFile(size)
    \/ LoadParams
    \/ MakeGraph

SpecRewind == InitRewind /\ [][NextRewind]_vars

\* routes of one index: pass-through, slice, rewind, and the failures
InitPass == InitWith({<<Head13>>}, {"PAN"})

NextPass ==
    \/ \E layer_dict \in Upto(MaxPassLayers, PassLayers) : MakeInputTensor(layer_dict)
    \/ \E layer_dict \in Upto(MaxPassLayers, PassLayers) : FirstNodeNotNet(layer_dict)
    \/ \E layer_dict \in Upto(MaxPassLayers, PassLayers) : EmitConvolutional(layer_dict)
    \/ \E layer_dict \in Upto(MaxPassLayers, PassLayers) : EmitRoute(layer_dict)
    \/ \E layer_dict \in Upto(MaxPassLayers, PassLayers) : EmitMaxpool(layer_dict)
    \/ \E layer_dict \in Upto(MaxPassLayers, PassLayers) : SkipUnsupported(layer_dict)
    \/ EndOfLayers
    \/ MakeTransposeNode
    \/ FinalConcat
    \/ \E size \in FileSizes(param_dict, FALSE) : OpenWeightsFile(size)
    \/ LoadParams
    \/ MakeGraph

SpecPass == InitPass /\ [][NextPass]_vars

\* convolutions of every activation, with and without normalization
InitConv == InitWith({<<Head13>>}, {"PAN"})

NextConv ==
    \/ \E layer_dict \in Upto(MaxConvLayers, ConvLayers) : MakeInputTensor(layer_dict)
    \/ \E layer_dict \in Upto(MaxConvLayers, ConvLayers) : FirstNodeNotNet(layer_dict)
    \/ \E layer_dict \in Upto(MaxConvLayers, ConvLayers) : EmitConvolutional(layer_dict)
    \/ \E layer_dict \in Upto(MaxConvLayers, ConvLayers) : SkipUnsupported(layer_dict)
    \/ EndOfLayers
    \/ MakeTransposeNode
    \/ FinalConcat
    \/ \E size \in FileSizes(param_dict, FALSE) : OpenWeightsFile(size)
    \/ LoadParams
    \/ MakeGraph

SpecConv == InitConv /\ [][NextConv]_vars

\* every node creator, rewinds and skipped records in one run
InitGraph == InitWith({<<Head13>>}, {"PAN"})

NextGraph ==
    \/ \E layer_dict \in Upto(MaxGraphLayers, GraphLayers) : MakeInputTensor(layer_dict)
    \/ \E layer_dict \in Upto(MaxGraphLayers, GraphLayers) : FirstNodeNotNet(layer_dict)
    \/ \E layer_dict \in Upto(MaxGraphLayers, GraphLayers) : EmitConvolutional(layer_dict)
    \/ \E layer_dict \in Upto(MaxGraphLayers, GraphLayers) : EmitShortcut(layer_dict)
    \/ \E layer_dict \in Upto(MaxGraphLayers, GraphLayers) : EmitRoute(layer_dict)
    \/ \E layer_dict \in Upto(MaxGraphLayers, GraphLayers) : EmitUpsample(layer_dict)
    \/ \E layer_dict \in Upto(MaxGraphLayers, GraphLayers) : EmitMaxpool(layer_dict)
    \/ \E layer_dict \in Upto(MaxGraphLayers, GraphLayers) : SkipUnsupported(layer_dict)
    \/ EndOfLayers
    \/ MakeTransposeNode
    \/ FinalConcat
    \/ \E size \in FileSizes(param_dict, FALSE) : OpenWeightsFile(size)
    \/ LoadParams
    \/ MakeGraph

SpecGraph == InitGraph /\ [][NextGraph]_vars

(***************************************************************************)
(* _get_previous_node_specs on its own: every history the first loop can   *)
(* leave (the net specs first, then created and skipped layers in any      *)
(* order) and every target index.                                          *)
(***************************************************************************)
CreatedSpecs(ord) == MajorNodeSpecs(LayerName(ord, "convolutional"), 32)
SkippedSpecs(ord) == MajorNodeSpecs(LayerName(ord, "yolo"), NoneChannels)

Histories ==
    UNION {{h \in [1..n -> {TRUE, FALSE}] : h[1]} : n \in 1..MaxHistory}

HistoryOf(h) ==
    [i \in 1..Len(h) |-> IF i = 1 THEN MajorNodeSpecs(LayerName(0, "net"), 3)
                         ELSE IF h[i] THEN CreatedSpecs(i - 1) ELSE SkippedSpecs(i - 1)]

Offsets == (0 - MaxOffset)..MaxOffset

\* s with x put before its p-th element
InsertAt(s, p, x) == SubSeq(s, 1, p - 1) \o <<x>> \o SubSeq(s, p, Len(s))

InitResolve ==
    /\ \E h \in Histories : major_node_specs = HistoryOf(h)
    /\ pc = "probe"
    /\ err = ""
    /\ layer_configs = <<>>
    /\ nodes = <<>>
    /\ param_dict = <<>>
    /\ input_tensor = [name |-> LayerName(0, "net"), dims |-> <<1, 3, 416, 416>>]
    /\ batch_size = DefaultBatchSize
    /\ classes = DefaultClasses
    /\ num = DefaultNum
    /\ output_tensors = <<>>
    /\ neck = "PAN"
    /\ transposes = <<>>
    /\ total_grids = <<0, 1>>
    /\ outputs = NoTensor
    /\ weights_file = NoFile
    /\ loaded = 0
    /\ initializer = <<>>
    /\ reads = <<>>
    /\ graph_def = NoGraph
    /\ probe = NoProbe
    /\ cfg_file = NoCfgFile
    /\ remainder = NoneText
    /\ layer_counter = 0

ProbeUnchanged ==
    UNCHANGED <<err, layer_configs, nodes, param_dict, input_tensor, batch_size, classes,
                num, output_tensors, neck, transposes, total_grids, outputs, weights_file,
                loaded, initializer, reads, graph_def, cfg_file, remainder, layer_counter>>

\* one call of _get_previous_node_specs(target_index)
Resolve(target_index) ==
    /\ pc = "probe"
    /\ probe' = [target_index |-> target_index,
                 before |-> GetPreviousNodeSpecs(major_node_specs, target_index),
                 after |-> GetPreviousNodeSpecs(major_node_specs, target_index),
                 inserted |-> 0]
    /\ pc' = "probed"
    /\ UNCHANGED major_node_specs
    /\ ProbeUnchanged

\* the same call on the history and on the history with one more skipped
\* layer, put before the p-th entry, between two created ones
ResolveWithSkipped(target_index, p) ==
    /\ pc = "probe"
    /\ p \in 2..Len(major_node_specs)
    /\ major_node_specs[p - 1].created_onnx_node
    /\ major_node_specs[p].created_onnx_node
    /\ major_node_specs' = InsertAt(major_node_specs, p, SkippedSpecs(Len(major_node_specs)))
    /\ probe' = [target_index |-> target_index,
                 before |-> GetPreviousNodeSpecs(major_node_specs, target_index),
                 after |-> GetPreviousNodeSpecs(major_node_specs', target_index),
                 inserted |-> p]
    /\ pc' = "probed"
    /\ ProbeUnchanged

NextResolve ==
    \/ \E target_index \in Offsets : Resolve(target_index)
    \/ \E target_index \in Offsets, p \in 2..MaxHistory :
            ResolveWithSkipped(target_index, p)

SpecResolve == InitResolve /\ [][NextResolve]_vars


(***************************************************************************)
(* Index resolution.                                                       *)
(***************************************************************************)
\* the 1-based position a target index names in a history of n entries
StartPosition(n, target_index) ==
    IF target_index < 0 THEN n + target_index + 1 ELSE target_index + 1

\* the created entries at or before the position a target index names
MetWalkingBack(h, target_index) ==
    {j \in 1..Len(h) : j <= StartPosition(Len(h), target_index) /\ h[j].created_onnx_node}

\* C4: for every history and every target index, _get_previous_node_specs
\* returns the created entry nearest to the start position among those at
\* or before it (every entry that is not created is skipped), and fails
\* when there is none.
C4_BackwardResolution ==
    (pc = "probed" /\ probe.inserted = 0) =>
        LET met == MetWalkingBack(major_node_specs, probe.target_index)
        IN IF met = {}
           THEN probe.before = NoSpecs
           ELSE \E j \in met : /\ \A k \in met : k <= j
                               /\ probe.before = major_node_specs[j]

\* a lookup that starts on a skipped entry, two or more back, and resolves
C4_Witness ==
    /\ pc = "probed"
    /\ probe.inserted = 0
    /\ probe.target_index < -1
    /\ StartPosition(Len(major_node_specs), probe.target_index) >= 2
    /\ ~major_node_specs[StartPosition(Len(major_node_specs),
                                       probe.target_index)].created_onnx_node
    /\ Found(probe.before)

\* C5 as stated: a skipped entry put between two created entries never
\* changes what a fixed relative (negative) target index resolves to.
C5_AnyInsertion ==
    (pc = "probed" /\ probe.inserted > 0 /\ probe.target_index < 0) =>
        probe.after = probe.before

\* C5 as amended: the resolution is unchanged when the skipped entry is not
\* among the |target_index| - 1 newest entries of the history it was put
\* in, that is when it lies at or before the start position.
C5_InsertionBeforeStart ==
    (/\ pc = "probed"
     /\ probe.inserted > 0
     /\ probe.target_index < 0
     /\ probe.inserted <= StartPosition(Len(major_node_specs), probe.target_index)) =>
        /\ Found(probe.before)
        /\ probe.after = probe.before

\* the start position is the inserted entry itself, two or more back
C5_Witness ==
    /\ pc = "probed"
    /\ probe.inserted > 0
    /\ probe.target_index < -1
    /\ probe.inserted = StartPosition(Len(major_node_specs), probe.target_index)
    /\ Found(probe.before)
    /\ probe.after = probe.before


(***************************************************************************)
(* The weight stream.                                                      *)
(***************************************************************************)
IsConvRecord(record) == record.dict.type = "convolutional"

HasBatchNormalize(layer_dict) ==
    "batch_normalize" \in DOMAIN layer_dict /\ layer_dict.batch_normalize = 1

GroupsOf(layer_dict) == IF "groups" \in DOMAIN layer_dict THEN layer_dict.groups ELSE 1

\* the tensors one convolution record takes from the stream, in stream order
ExpectedConvReads(record) ==
    IF HasBatchNormalize(record.dict)
    THEN <<GenerateParamName(record.name, "bn", "bias"),
           GenerateParamName(record.name, "bn", "scale"),
           GenerateParamName(record.name, "bn", "mean"),
           GenerateParamName(record.name, "bn", "var"),
           GenerateParamName(record.name, "conv", "weights")>>
    ELSE <<GenerateParamName(record.name, "conv", "bias"),
           GenerateParamName(record.name, "conv", "weights")>>

RECURSIVE ExpectedReads(_)
ExpectedReads(records) ==
    IF records = <<>> THEN <<>>
    ELSE (IF IsConvRecord(Head(records)) THEN ExpectedConvReads(Head(records)) ELSE <<>>)
         \o ExpectedReads(Tail(records))

\* the names of the tensors read after the header
TensorReads == [i \in 1..(Len(reads) - 1) |-> reads[i + 1].name]

IsPrefix(s, t) == Len(s) <= Len(t) /\ s = SubSeq(t, 1, Len(s))

\* C1: the replay reads the stream once per convolution record, in the
\* order the records were emitted: bias, scale, mean, variance, weights of
\* a normalized convolution, bias then weights of another; no other
\* binding (resize, reshape, slice) reads the stream. While the replay runs
\* the reads are a prefix of that list, and at the end the whole of it.
C1_ReadOrder ==
    /\ weights_file = NoFile => reads = <<>>
    /\ weights_file # NoFile =>
        /\ reads[1].name = NoneName
        /\ IsPrefix(TensorReads, ExpectedReads(layer_configs))
        /\ pc = "done" => TensorReads = ExpectedReads(layer_configs)

\* a finished run over a normalized and a plain convolution, with a
\* binding of another kind between their bindings
C1_Witness ==
    /\ pc = "done"
    /\ \E i, j, k \in 1..Len(param_dict) :
        /\ i < j /\ j < k
        /\ IsConvKey(param_dict[i].key) /\ param_dict[i].params.batch_normalize
        /\ ~IsConvKey(param_dict[j].key)
        /\ IsConvKey(param_dict[k].key) /\ ~param_dict[k].params.batch_normalize
    /\ \E i \in 1..Len(param_dict) : IsReshapeKey(param_dict[i].key)
    /\ Len(reads) = 8

\* the entry of major_node_specs a convolution takes its input from
LastCreated(h) ==
    h[CHOOSE j \in 1..Len(h) :
        /\ h[j].created_onnx_node
        /\ \A k \in (j + 1)..Len(h) : ~h[k].created_onnx_node]

\* the element counts a convolution record declares
DeclaredWeights(layer_dict, input_channels) ==
    layer_dict.filters * (input_channels \div GroupsOf(layer_dict))
        * layer_dict.size * layer_dict.size

DeclaredPerChannel(layer_dict) ==
    IF HasBatchNormalize(layer_dict) THEN 4 * layer_dict.filters ELSE layer_dict.filters

\* the elements declared by the binding of a convolution
BoundElements(conv_params) ==
    Product(conv_params.conv_weight_dims)
        + (IF conv_params.batch_normalize THEN 4 ELSE 1) * conv_params.conv_weight_dims[1]

RECURSIVE DeclaredElements(_)
DeclaredElements(pd) ==
    IF pd = <<>> THEN 0
    ELSE (IF IsConvKey(Head(pd).key) THEN BoundElements(Head(pd).params) ELSE 0)
         + DeclaredElements(Tail(pd))

\* a step of the first loop that emitted a convolution record
ConvolutionEmitted ==
    /\ pc = "emit" /\ pc' = "emit"
    /\ Len(layer_configs') = Len(layer_configs) + 1
    /\ IsConvRecord(layer_configs'[Len(layer_configs')])

\* C2: every convolution record declares filters x (input channels div
\* groups) x size x size weights and 4 x filters normalization elements, or
\* filters bias elements; a finished run has consumed 20 + 4 x the sum of
\* the declared element counts, each read starting where the one before
\* it ended, so that the byte range of a binding is fixed by the records.
C2_BytesConsumed ==
    /\ [][ConvolutionEmitted =>
            LET record == layer_configs'[Len(layer_configs')]
                binding == param_dict'[Len(param_dict')]
            IN /\ Len(param_dict') = Len(param_dict) + 1
               /\ binding.key = record.name
               /\ BoundElements(binding.params) =
                    DeclaredWeights(record.dict, LastCreated(major_node_specs).channels)
                    + DeclaredPerChannel(record.dict)]_vars
    /\ [](pc = "done" =>
            /\ weights_file.pos = 20 + 4 * DeclaredElements(param_dict)
            /\ \A i \in 1..Len(reads) :
                /\ reads[i].got = reads[i].nbytes
                /\ reads[i].offset = Sum([j \in 1..(i - 1) |-> reads[j].nbytes]))

\* a finished run that read a grouped, normalized convolution and another
C2_Witness ==
    /\ pc = "done"
    /\ weights_file.pos > 20
    /\ \E i, j \in 1..Len(layer_configs) :
        /\ i # j
        /\ IsConvRecord(layer_configs[i]) /\ IsConvRecord(layer_configs[j])
        /\ GroupsOf(layer_configs[i].dict) = 2
        /\ ~HasBatchNormalize(layer_configs[j].dict)
    /\ weights_file.size > weights_file.pos

\* C3: a read that gets fewer bytes than the shape needs ends the run with
\* an error: it is the last read, no graph is built, and no tensor is made
\* from it; every tensor read from the stream has all its elements.
C3_ShortRead ==
    /\ \A i \in 1..Len(reads) :
        reads[i].got < reads[i].nbytes =>
            /\ pc = "failed"
            /\ err = "TypeError"
            /\ i = Len(reads)
            /\ graph_def = NoGraph
            /\ \A k \in 1..Len(initializer) : initializer[k].name # reads[i].name
    /\ \A k \in 1..Len(initializer) :
        initializer[k].offset >= 0 =>
            initializer[k].count = Product(initializer[k].dims)
    /\ graph_def.built =>
        \A k \in 1..Len(graph_def.initializer) :
            graph_def.initializer[k].offset >= 0 =>
                graph_def.initializer[k].count = Product(graph_def.initializer[k].dims)

\* a read in the middle of the stream that got some of its bytes, not all
C3_Witness ==
    /\ pc = "failed"
    /\ Len(reads) > 3
    /\ reads[Len(reads)].got > 0
    /\ reads[Len(reads)].got < reads[Len(reads)].nbytes
    /\ initializer # <<>>


(***************************************************************************)
(* Shortcuts.                                                              *)
(***************************************************************************)
LastRecord == layer_configs[Len(layer_configs)]

\* the name of the last tensor a convolution record produces
ConvOutputName(record) ==
    CASE record.dict.activation = "leaky" -> Suffixed(record.name, "lrelu")
      [] record.dict.activation = "relu" -> Suffixed(record.name, "relu")
      [] record.dict.activation = "logistic" -> Suffixed(record.name, "logistic")
      [] record.dict.activation = "mish" -> Suffixed(record.name, "mish")
      [] OTHER -> IF HasBatchNormalize(record.dict) THEN Suffixed(record.name, "bn")
                  ELSE record.name

\* the records are net, convolution, convolution, shortcut (linear)
TwoConvsThenShortcut(from) ==
    /\ Len(layer_configs) = 4
    /\ layer_configs[1].dict.type = "net"
    /\ IsConvRecord(layer_configs[2])
    /\ IsConvRecord(layer_configs[3])
    /\ layer_configs[4].dict.type = "shortcut"
    /\ layer_configs[4].dict.from = from
    /\ layer_configs[4].dict.activation = "linear"

\* the Add node of the shortcut record has exactly these inputs
AddNodeOver(ins) ==
    /\ pc # "failed"
    /\ \E i \in 1..Len(nodes) :
        /\ nodes[i].output = layer_configs[4].name
        /\ nodes[i].op = "Add"
        /\ nodes[i].inputs = ins

ShortcutMismatch ==
    /\ pc = "failed"
    /\ err = "AssertionError"
    /\ \A i \in 1..Len(nodes) : nodes[i].op # "Add"

\* C6 as stated: with from=-3 the Add node takes the two convolutions'
\* final outputs when their filter counts are equal, and the shortcut
\* fails when they differ.
C6_AddsTheTwoConvolutions ==
    TwoConvsThenShortcut(-3) =>
        IF layer_configs[2].dict.filters = layer_configs[3].dict.filters
        THEN \/ AddNodeOver(<<ConvOutputName(layer_configs[3]),
                              ConvOutputName(layer_configs[2])>>)
             \/ AddNodeOver(<<ConvOutputName(layer_configs[2]),
                              ConvOutputName(layer_configs[3])>>)
        ELSE ShortcutMismatch

\* C6 as amended: with from=-3 the second input is the network input (the
\* third entry back): the Add node takes the second convolution's final
\* output and the input tensor when the second convolution's filters equal
\* the network's channels, and the shortcut fails otherwise; it is with
\* from=-2 that the two convolutions' outputs are added when their filter
\* counts are equal, and the shortcut fails when they differ.
C6_AddsTheThirdEntryBack ==
    /\ TwoConvsThenShortcut(-3) =>
        IF layer_configs[3].dict.filters = layer_configs[1].dict.channels
        THEN AddNodeOver(<<ConvOutputName(layer_configs[3]), layer_configs[1].name>>)
        ELSE ShortcutMismatch
    /\ TwoConvsThenShortcut(-2) =>
        IF layer_configs[3].dict.filters = layer_configs[2].dict.filters
        THEN AddNodeOver(<<ConvOutputName(layer_configs[3]),
                           ConvOutputName(layer_configs[2])>>)
        ELSE ShortcutMismatch

\* from=-3 over two convolutions of different filter counts, added to the input
C6_Witness ==
    /\ TwoConvsThenShortcut(-3)
    /\ layer_configs[2].dict.filters # layer_configs[3].dict.filters
    /\ AddNodeOver(<<ConvOutputName(layer_configs[3]), layer_configs[1].name>>)

\* a step of the first loop that handed a shortcut record to its creator
ShortcutEmitted ==
    /\ pc = "emit"
    /\ input_tensor # NoTensor
    /\ Len(layer_configs') = Len(layer_configs) + 1
    /\ layer_configs'[Len(layer_configs')].dict.type = "shortcut"

NothingAdded ==
    /\ pc' = "failed"
    /\ nodes' = nodes
    /\ major_node_specs' = major_node_specs
    /\ param_dict' = param_dict

\* the created entry nearest to the start position, at or before it
ResolvedBack(h, target_index) ==
    h[CHOOSE j \in MetWalkingBack(h, target_index) :
        \A k \in MetWalkingBack(h, target_index) : k <= j]

\* C7: a shortcut whose activation is not linear, or whose two resolved
\* specs differ in channels, fails and adds no node, no history entry and
\* no binding (as does one whose from resolves to nothing); otherwise it
\* emits exactly one Add node, and its specs have the channels of the
\* immediately preceding created specs.
C7_ShortcutChecks ==
    [][ShortcutEmitted =>
        LET layer_dict == layer_configs'[Len(layer_configs')].dict
            dangling == MetWalkingBack(major_node_specs, layer_dict.from) = {}
        IN IF layer_dict.activation # "linear" THEN NothingAdded
           ELSE IF dangling THEN NothingAdded
           ELSE IF ResolvedBack(major_node_specs, layer_dict.from).channels
                        # LastCreated(major_node_specs).channels
           THEN NothingAdded
           ELSE /\ pc' = "emit"
                /\ Len(nodes') = Len(nodes) + 1
                /\ SubSeq(nodes', 1, Len(nodes)) = nodes
                /\ nodes'[Len(nodes')].op = "Add"
                /\ param_dict' = param_dict
                /\ Len(major_node_specs') = Len(major_node_specs) + 1
                /\ SubSeq(major_node_specs', 1, Len(major_node_specs)) = major_node_specs
                /\ major_node_specs'[Len(major_node_specs')].created_onnx_node
                /\ major_node_specs'[Len(major_node_specs')].channels
                        = LastCreated(major_node_specs).channels]_vars

\* a shortcut emitted right after a skipped layer
C7_Witness ==
    /\ pc = "emit"
    /\ Len(layer_configs) >= 3
    /\ LastRecord.dict.type = "shortcut"
    /\ layer_configs[Len(layer_configs) - 1].dict.type = "yolo"
    /\ nodes[Len(nodes)].op = "Add"
    /\ major_node_specs[Len(major_node_specs)].name = LastRecord.name


(***************************************************************************)
(* Routes.                                                                 *)
(***************************************************************************)
\* a step of the first loop in which a route record of several indices
\* produced its node
ConcatEmitted ==
    /\ pc = "emit" /\ pc' = "emit"
    /\ input_tensor # NoTensor
    /\ Len(layer_configs') = Len(layer_configs) + 1
    /\ layer_configs'[Len(layer_configs')].dict.type = "route"
    /\ Len(layer_configs'[Len(layer_configs')].dict.layers) > 1

\* the target index _get_previous_node_specs gets for an entry of layers
RouteTarget(index) == IF index > 0 THEN index + 1 ELSE index

\* C8: a route of several indices emits one Concat whose inputs are the
\* names of the specs its indices resolve to, in the order of layers, and
\* its specs have the sum of their channel counts; layers=-1,-3 over specs
\* of 64 and 128 channels gives 192 channels.
C8_ConcatChannels ==
    [][ConcatEmitted =>
        LET layers == layer_configs'[Len(layer_configs')].dict.layers
            resolved == [i \in 1..Len(layers) |->
                            ResolvedBack(major_node_specs, RouteTarget(layers[i]))]
            node == nodes'[Len(nodes')]
            specs == major_node_specs'[Len(major_node_specs')]
        IN /\ Len(nodes') = Len(nodes) + 1
           /\ node.op = "Concat"
           /\ node.inputs = [i \in 1..Len(layers) |-> resolved[i].name]
           /\ specs.name = node.output
           /\ specs.channels = Sum([i \in 1..Len(layers) |-> resolved[i].channels])
           /\ (/\ layers = <<-1, -3>>
               /\ resolved[1].channels = 64
               /\ resolved[2].channels = 128) => specs.channels = 192]_vars

\* layers=-1,-3 over specs of 64 and 128 channels
C8_Witness ==
    /\ pc = "emit"
    /\ Len(major_node_specs) >= 4
    /\ LastRecord.dict.type = "route"
    /\ LastRecord.dict.layers = <<-1, -3>>
    /\ major_node_specs[Len(major_node_specs)].name = LastRecord.name
    /\ major_node_specs[Len(major_node_specs)].channels = 192
    /\ major_node_specs[Len(major_node_specs) - 1].channels = 64
    /\ major_node_specs[Len(major_node_specs) - 3].channels = 128
    /\ nodes[Len(nodes)].inputs = <<major_node_specs[Len(major_node_specs) - 1].name,
                                    major_node_specs[Len(major_node_specs) - 3].name>>

\* C9: for every slice (route of one index with groups=2, group_id=1) over
\* specs of c channels, start = c div 2 and end = c, and the channel count
\* of the slice's specs is exactly half of c and equals end - start.
C9_SliceHalves ==
    \A i \in 1..Len(param_dict) :
        IsSliceKey(param_dict[i].key) =>
            LET start == param_dict[i].params[1].value[1]
                end == param_dict[i].params[2].value[1]
            IN \A j \in 1..Len(major_node_specs) :
                major_node_specs[j].name = param_dict[i].params[1].node_name =>
                    /\ start = end \div 2
                    /\ major_node_specs[j].channels = end - start
                    /\ 2 * major_node_specs[j].channels = end

(***************************************************************************)
(* One convolution, end to end.                                            *)
(***************************************************************************)
\* the records are Net416 and Conv32, and the weights file, once opened,
\* holds the header and 4 x 32 + 32 x 3 x 3 x 3 floats
OneConvolution ==
    /\ layer_configs = <<[name |-> LayerName(0, "net"), dict |-> Net416],
                         [name |-> LayerName(1, "convolutional"), dict |-> Conv32]>>
    /\ pc \notin {"emit", "heads", "open"}
    /\ weights_file.size = 20 + 4 * (4 * 32 + 32 * 3 * 3 * 3)

CreatedCount(h) == Cardinality({j \in 1..Len(h) : h[j].created_onnx_node})

\* C10 as stated: the graph has exactly 3 nodes and the history exactly
\* one created entry, of 32 channels.
C10_ThreeNodesOneSpec ==
    (OneConvolution /\ pc = "done") =>
        /\ Len(graph_def.nodes) = 3
        /\ CreatedCount(major_node_specs) = 1
        /\ \A j \in 1..Len(major_node_specs) :
            major_node_specs[j].created_onnx_node => major_node_specs[j].channels = 32

\* C10 as amended: the run ends with a graph; the convolution record
\* gives its first 3 nodes (Conv, BatchNormalization, LeakyRelu), which are
\* followed by three nodes for each output head and the final Concat; the
\* history holds two created entries, the network input's of 3 channels
\* and the convolution's of 32; the stream is read to its end.
C10_ThreeNodesThenHeads ==
    OneConvolution =>
        /\ pc # "failed"
        /\ pc = "done" =>
            /\ graph_def.built
            /\ Len(graph_def.nodes) = 3 + 3 * Len(output_tensors) + 1
            /\ [i \in 1..3 |-> graph_def.nodes[i].op]
                    = <<"Conv", "BatchNormalization", "LeakyRelu">>
            /\ graph_def.nodes[Len(graph_def.nodes)].op = "Concat"
            /\ Len(major_node_specs) = 2
            /\ CreatedCount(major_node_specs) = 2
            /\ major_node_specs[1].channels = 3
            /\ major_node_specs[2].channels = 32
            /\ major_node_specs[2].name = graph_def.nodes[3].output
            /\ weights_file.pos = weights_file.size

\* the finished run without output heads: 3 nodes and the final Concat
C10_Witness ==
    /\ OneConvolution
    /\ pc = "done"
    /\ output_tensors = <<>>
    /\ Len(graph_def.nodes) = 4

(***************************************************************************)
(* The first record and the input tensor.                                  *)
(***************************************************************************)
\* a step of the first loop that handed one more record to _make_onnx_node
RecordEmitted ==
    /\ pc = "emit"
    /\ Len(layer_configs') = Len(layer_configs) + 1

\* C11: a first record that is not a net record ends the run with a
\* ValueError and no node; a first net record sets the batch size and
\* declares the input tensor (batch x channels x height x width); no later
\* record, a later net record included, changes the input tensor or the
\* batch size, and the graph's only input that is not an initializer is
\* that tensor.
C11_FirstRecord ==
    /\ [][RecordEmitted =>
            LET record == layer_configs'[Len(layer_configs')]
            IN IF layer_configs = <<>>
               THEN IF record.dict.type # "net"
                    THEN /\ pc' = "failed"
                         /\ err' = "ValueError"
                         /\ nodes' = <<>>
                         /\ input_tensor' = NoTensor
                         /\ major_node_specs' = <<>>
                    ELSE /\ pc' = "emit"
                         /\ batch_size' = record.dict.batch
                         /\ input_tensor' = [name |-> record.name,
                                             dims |-> <<record.dict.batch,
                                                        record.dict.channels,
                                                        record.dict.height,
                                                        record.dict.width>>]
                         /\ nodes' = <<>>
               ELSE /\ input_tensor' = input_tensor
                    /\ batch_size' = batch_size]_vars
    /\ [][input_tensor # NoTensor =>
            (input_tensor' = input_tensor /\ batch_size' = batch_size)]_vars
    /\ [](graph_def.built =>
            /\ graph_def.inputs[1] = input_tensor.name
            /\ \A i \in 2..Len(graph_def.inputs) :
                    graph_def.inputs[i] = graph_def.initializer[i - 1].name)

\* a run whose first record declared batch 1 went on through a net record
\* of batch 2 and was built
C11_Witness ==
    /\ pc = "done"
    /\ layer_configs[1].dict = Net416
    /\ \E i \in 2..Len(layer_configs) : layer_configs[i].dict = Net608
    /\ batch_size = 1
    /\ input_tensor.dims = <<1, 3, 416, 416>>
    /\ graph_def.inputs[1] = input_tensor.name

(***************************************************************************)
(* DarkNetParser.  The text of the cfg file is a sequence of tokens: '['   *)
(* and ']', the text of a header, a comment that follows a header on its   *)
(* line, a parameter line 'key=value' (or a '#' comment line) with the     *)
(* newline before it, and the empty line that ends a block.                *)
(***************************************************************************)
Token(t, key, raw) == [t |-> t, key |-> key, raw |-> raw]
OpenBracket == Token("[", "", "")
CloseBracket == Token("]", "", "")
HeaderText(type) == Token("word", type, "")
HeaderComment == Token("header comment", "", "")
ParamLine(key, raw) == Token("line", key, raw)
CommentLine == Token("comment", "", "")
EmptyLine == Token("blank", "", "")

\* the blocks the model writes cfg files from
NetBlock ==
    <<OpenBracket, HeaderText("net"), CloseBracket, ParamLine("batch", "1"),
      ParamLine("channels", "3"), ParamLine("height", "416"), ParamLine("width", "416"),
      EmptyLine>>
ConvBlock ==
    <<OpenBracket, HeaderText("convolutional"), CloseBracket,
      ParamLine("batch_normalize", "1"), ParamLine("filters", "32"), ParamLine("size", "3"),
      ParamLine("stride", "1"), ParamLine("pad", "1"), ParamLine("activation", "leaky"),
      EmptyLine>>
YoloBlock ==
    <<OpenBracket, HeaderText("yolo"), CloseBracket, ParamLine("mask", "0,1,2"),
      ParamLine("anchors", "10,14,23,27"), ParamLine("classes", "2"), ParamLine("num", "6"),
      ParamLine("jitter", ".3"), EmptyLine>>
DropoutBlock ==
    <<OpenBracket, HeaderText("dropout"), CloseBracket, ParamLine("probability", ".5"),
      EmptyLine>>
CommentedBlock ==
    <<OpenBracket, HeaderText("maxpool"), CloseBracket, CommentLine, EmptyLine>>
HeaderCommentBlock ==
    <<OpenBracket, HeaderText("maxpool"), CloseBracket, HeaderComment,
      ParamLine("size", "2"), EmptyLine>>
UnterminatedBlock ==
    <<OpenBracket, HeaderText("convolutional"), ParamLine("filters", "32"), EmptyLine>>

CfgBlocks == {NetBlock, ConvBlock, YoloBlock, DropoutBlock, CommentedBlock,
              HeaderCommentBlock, UnterminatedBlock}

\* main's supported_layers
supported_layers == {"net", "convolutional", "shortcut", "route", "upsample", "maxpool"}

RECURSIVE Flatten(_)
Flatten(blocks) == IF blocks = <<>> THEN <<>> ELSE Head(blocks) \o Flatten(Tail(blocks))

\* the position of the first token of kind t in text, 0 when there is none
FirstOf(text, t) ==
    IF \E i \in 1..Len(text) : text[i].t = t
    THEN CHOOSE i \in 1..Len(text) : text[i].t = t /\ \A j \in 1..(i - 1) : text[j].t # t
    ELSE 0

After(text, i) == SubSeq(text, i + 1, Len(text))

\* DarkNetParser._parse_params on the values the blocks hold
IsAlpha(raw) == raw \in {"leaky", "linear", "mish"}
IsInteger(raw) == raw \in {"1", "2", "3", "6", "32", "416"}
IntegerOf(raw) ==
    CASE raw = "1" -> 1 [] raw = "2" -> 2 [] raw = "3" -> 3 [] raw = "6" -> 6
      [] raw = "32" -> 32 [] OTHER -> 416
SplitAtCommas(raw) ==
    IF raw = "0,1,2" THEN <<"0", "1", "2">> ELSE <<"10", "14", "23", "27">>
HasComma(raw) == raw \in {"0,1,2", "10,14,23,27"}
ParseParams(param_line) ==
    IF IsAlpha(param_line.raw) THEN param_line.raw
    ELSE IF IsInteger(param_line.raw) THEN IntegerOf(param_line.raw)
    ELSE IF HasComma(param_line.raw) THEN SplitAtCommas(param_line.raw)
    ELSE [float |-> param_line.raw]

\* 'class' in param_line or 'num' in param_line or 'mask' in param_line
KeptOfUnsupported(param_line) ==
    param_line.t = "line" /\ param_line.key \in {"classes", "num", "mask"}

\* the layer type read between the brackets
LayerType(header) ==
    IF Len(header) = 1 /\ header[1].t = "word" THEN header[1].key ELSE "malformed"

\* the parameter lines _next_layer puts into layer_dict
RetainedLines(layer_type, layer_param_lines) ==
    IF layer_type \in supported_layers
    THEN SelectSeq(layer_param_lines, LAMBDA l : l.t = "line")
    ELSE SelectSeq(layer_param_lines, KeptOfUnsupported)

\* layer_dict: the type and the retained parameters, a later line of the
\* same key replacing an earlier one
LayerDict(layer_type, lines) ==
    [k \in {"type"} \cup {lines[i].key : i \in 1..Len(lines)} |->
        IF k = "type" THEN layer_type
        ELSE ParseParams(lines[CHOOSE i \in 1..Len(lines) :
                                /\ lines[i].key = k
                                /\ \A j \in (i + 1)..Len(lines) : lines[j].key # k])]

\* a counter that counts every block
CounterEveryBlock(counter, layer_dict) == counter + 1

\* lines 95-97: a block left with its type only is dropped and the counter
\* does not move
CounterAfter(counter, layer_dict) ==
    IF DOMAIN layer_dict = {"type"} THEN counter ELSE counter + 1

NoLayer(text, counter, e) ==
    [kept |-> FALSE, layer_name |-> NoneName, layer_dict |-> [type |-> "None"],
     remainder |-> text, layer_counter |-> counter, err |-> e]

\* DarkNetParser._next_layer
NextLayerOf(text, counter) ==
    LET open == FirstOf(text, "[")
        after_open == After(text, open)
        close == FirstOf(after_open, "]")
        header == SubSeq(after_open, 1, close - 1)
        after_close == After(after_open, close)
        commented == after_close # <<>> /\ after_close[1].t = "header comment"
        after_header == IF commented THEN Tail(after_close) ELSE after_close
        blank == FirstOf(after_header, "blank")
        layer_param_block == IF blank > 0 THEN SubSeq(after_header, 1, blank - 1)
                             ELSE after_header
        rest == IF blank > 0 THEN After(after_header, blank) ELSE <<>>
        \* split('\n')[1:] drops what is left of the header's line, and the
        \* first parameter line when the header's comment was cut off
        layer_param_lines == IF commented /\ layer_param_block # <<>>
                             THEN Tail(layer_param_block) ELSE layer_param_block
        layer_type == LayerType(header)
        layer_dict == LayerDict(layer_type, RetainedLines(layer_type, layer_param_lines))
    IN IF open = 0 THEN NoLayer(NoneText, counter, "")
       ELSE IF close = 0 THEN NoLayer(NoneText, counter, "")
       ELSE IF after_close = <<>> THEN NoLayer(NoneText, counter, "IndexError")
       ELSE IF DOMAIN layer_dict = {"type"}
       THEN NoLayer(rest, CounterAfter(counter, layer_dict), "")
       ELSE [kept |-> TRUE, layer_name |-> LayerName(counter, layer_type),
             layer_dict |-> layer_dict, remainder |-> rest,
             layer_counter |-> CounterAfter(counter, layer_dict), err |-> ""]

ParseUnchanged ==
    UNCHANGED <<major_node_specs, nodes, param_dict, input_tensor, batch_size, classes,
                num, output_tensors, neck, transposes, total_grids, outputs, weights_file,
                loaded, initializer, reads, graph_def, probe, cfg_file>>

\* one pass of the loop of parse_cfg_file (lines 34-37)
NextLayer ==
    /\ pc = "parse"
    /\ remainder # NoneText
    /\ LET r == NextLayerOf(remainder, layer_counter)
       IN /\ remainder' = r.remainder
          /\ layer_counter' = r.layer_counter
          /\ layer_configs' = IF r.kept
                              THEN Append(layer_configs,
                                          [name |-> r.layer_name, dict |-> r.layer_dict])
                              ELSE layer_configs
          /\ IF r.err # "" THEN pc' = "failed" /\ err' = r.err
             ELSE UNCHANGED <<pc, err>>
    /\ ParseUnchanged

\* return self.layer_configs (line 38)
ParseReturns ==
    /\ pc = "parse"
    /\ remainder = NoneText
    /\ pc' = "parsed"
    /\ UNCHANGED <<err, layer_configs, remainder, layer_counter>>
    /\ ParseUnchanged

\* a header at the very end of the file, with nothing after its ']'
BareHeader == <<OpenBracket, HeaderText("maxpool"), CloseBracket>>

\* the files the model parses: up to MaxBlocks blocks, ending with the last
\* block's empty line, or without it, or with a bare header
CfgFiles ==
    {[blocks |-> b, ending |-> e] :
        b \in UNION {[1..n -> CfgBlocks] : n \in 0..MaxBlocks},
        e \in {"empty line", "no empty line", "bare header"}}
ButLast(text) == SubSeq(text, 1, Len(text) - 1)

\* cfg_file.read()
TextOf(file) ==
    CASE file.ending = "no empty line" -> ButLast(Flatten(file.blocks))
      [] file.ending = "bare header" -> Flatten(file.blocks) \o BareHeader
      [] OTHER -> Flatten(file.blocks)

InitParse ==
    /\ cfg_file \in CfgFiles
    /\ remainder = TextOf(cfg_file)
    /\ layer_counter = 0
    /\ pc = "parse"
    /\ err = ""
    /\ layer_configs = <<>>
    /\ major_node_specs = <<>>
    /\ nodes = <<>>
    /\ param_dict = <<>>
    /\ input_tensor = NoTensor
    /\ batch_size = DefaultBatchSize
    /\ classes = DefaultClasses
    /\ num = DefaultNum
    /\ output_tensors = <<>>
    /\ neck = "PAN"
    /\ transposes = <<>>
    /\ total_grids = <<0, 1>>
    /\ outputs = NoTensor
    /\ weights_file = NoFile
    /\ loaded = 0
    /\ initializer = <<>>
    /\ reads = <<>>
    /\ graph_def = NoGraph
    /\ probe = NoProbe

NextParse ==
    \/ NextLayer
    \/ ParseReturns

SpecParse == InitParse /\ [][NextParse]_vars

(***************************************************************************)
(* The parser's ordinals.                                                  *)
(***************************************************************************)
\* the blocks of the model that keep a parameter: the supported ones with a
\* parameter line, and the detection head with its mask, classes and num
RetainingBlocks == {NetBlock, ConvBlock, YoloBlock}

AllTerminated(file) == \A i \in 1..Len(file.blocks) : file.blocks[i] # UnterminatedBlock

\* the blocks of the file that keep a parameter, in the order of the file
Retaining(file) == SelectSeq(file.blocks, LAMBDA b : b \in RetainingBlocks)

\* C12: the layer names carry the ordinals 0, 1, 2, ... in order without a
\* gap, as many as the counter has counted; when the file has been parsed
\* (every header terminated) there is one record for each block that keeps
\* a parameter, in block order, and no record for a block that keeps none.
C12_Ordinals ==
    /\ layer_counter = Len(layer_configs)
    /\ \A i \in 1..Len(layer_configs) : layer_configs[i].name.ord = i - 1
    /\ (pc = "parsed" /\ AllTerminated(cfg_file)) =>
        /\ Len(layer_configs) = Len(Retaining(cfg_file))
        /\ \A i \in 1..Len(layer_configs) :
            layer_configs[i].name = LayerName(i - 1, Retaining(cfg_file)[i][2].key)

\* a parsed file with a dropped block between two blocks that are kept
C12_Witness ==
    /\ pc = "parsed"
    /\ cfg_file.blocks = <<NetBlock, DropoutBlock, YoloBlock>>
    /\ layer_configs = <<[name |-> LayerName(0, "net"), dict |-> Net416],
                         [name |-> LayerName(1, "yolo"), dict |-> Yolo]>>

\* an opening bracket that no closing bracket follows
UnterminatedHeader(text) ==
    \E i \in 1..Len(text) :
        /\ text[i].t = "["
        /\ \A j \in (i + 1)..Len(text) : text[j].t # "]"

\* C13: parsing a file with an unterminated block header fails with an
\* error and returns no mapping of layer records.
C13_UnterminatedFails ==
    (UnterminatedHeader(TextOf(cfg_file)) /\ pc \in {"parsed", "failed"}) =>
        /\ pc = "failed"
        /\ err = "MalformedConfig"

(***************************************************************************)
(* All or nothing.                                                         *)
(***************************************************************************)
\* C14: the graph is made in one step, at the end of the replay, after
\* every record was emitted and every read got all its bytes; a run that
\* failed (a ValueError or a failed assertion of the first loop, a failed
\* lookup, a short read) has no graph and takes no further step.
C14_GraphOrFailure ==
    /\ [](pc = "failed" => (err # "" /\ graph_def = NoGraph))
    /\ [](graph_def.built =>
            /\ pc = "done"
            /\ err = ""
            /\ loaded = Len(param_dict)
            /\ \A i \in 1..Len(reads) : reads[i].got = reads[i].nbytes
            /\ weights_file.pos <= weights_file.size
            /\ graph_def.nodes = nodes
            /\ graph_def.initializer = initializer)
    /\ [](~graph_def.built => graph_def = NoGraph)
    /\ [][pc # "failed"]_vars
    /\ [][graph_def' # graph_def => (pc = "load" /\ pc' = "done")]_vars

\* a lookup that found nothing, after nodes were emitted
C14_Witness ==
    /\ pc = "failed"
    /\ err = "AssertionError"
    /\ LastRecord.dict.type = "route"
    /\ nodes # <<>>
    /\ graph_def = NoGraph

(***************************************************************************)
(* The output heads.                                                       *)
(***************************************************************************)
\* the loop over the heads and the final Concat are behind
HeadsBuilt == pc \in {"open", "load", "done"} \/ (pc = "failed" /\ weights_file # NoFile)

\* the name of the last tensor of a head
HeadOutput(head) == Suffixed(head.name, "reshape_2")

\* C15: the final Concat is the last node; its inputs are the heads' last
\* tensors, in the reverse of the declared order when the neck is FPN and
\* in the declared order otherwise; before it come exactly three nodes for
\* each declared head, Reshape, Transpose, Reshape, chained from the head's
\* tensor, in the declared order.
C15_FinalConcat ==
    HeadsBuilt =>
        LET k == Len(output_tensors)
            n == Len(nodes)
            final == [i \in 1..k |-> HeadOutput(output_tensors[i])]
            first(i) == n - 1 - 3 * k + 3 * (i - 1) + 1
        IN /\ n >= 3 * k + 1
           /\ nodes[n].op = "Concat"
           /\ nodes[n].output = OutputName
           /\ nodes[n].inputs = (IF neck = "FPN" THEN Reverse(final) ELSE final)
           /\ \A i \in 1..k :
                /\ nodes[first(i)].op = "Reshape"
                /\ nodes[first(i)].inputs[1] = output_tensors[i].name
                /\ nodes[first(i) + 1].op = "Transpose"
                /\ nodes[first(i) + 1].inputs = <<nodes[first(i)].output>>
                /\ nodes[first(i) + 2].op = "Reshape"
                /\ nodes[first(i) + 2].inputs[1] = nodes[first(i) + 1].output
                /\ nodes[first(i) + 2].output = final[i]
           /\ \A j \in 1..(n - 1 - 3 * k) : nodes[j].op \notin {"Reshape", "Transpose"}
           /\ \A j \in 1..(n - 1) : nodes[j].output # OutputName
           /\ graph_def.built => graph_def.nodes = nodes

\* a built graph of two heads with the FPN neck: the second head comes first
C15_Witness ==
    /\ pc = "done"
    /\ neck = "FPN"
    /\ output_tensors = <<Head13, Head26>>
    /\ graph_def.nodes[Len(graph_def.nodes)].inputs
            = <<HeadOutput(Head26), HeadOutput(Head13)>>
    /\ Len(graph_def.nodes) > 7

\* the shape a head's first Reshape was given: batch, anchors per head,
\* classes + 5, height, width
FirstReshape(head) ==
    LET i == CHOOSE i \in 1..Len(param_dict) :
                param_dict[i].key = Suffixed(head.name, "reshape_1")
    IN param_dict[i].params.value

\* C16: the declared output has the shape batch, total grid cells,
\* classes + 5, where the total is the sum over the heads of anchors per
\* head x height x width, these being the values of the head's first
\* Reshape, and anchors per head is num div the number of heads.
C16_OutputShape ==
    HeadsBuilt =>
        LET k == Len(output_tensors)
            cells == [i \in 1..k |->
                        FirstReshape(output_tensors[i])[2]
                            * FirstReshape(output_tensors[i])[4]
                            * FirstReshape(output_tensors[i])[5]]
        IN /\ \A i \in 1..k : FirstReshape(output_tensors[i])[2] = num \div k
           /\ outputs.name = OutputName
           /\ outputs.dims = <<batch_size, Sum(cells), classes + BoxAttributes>>

(***************************************************************************)
(* Rewinds.                                                                *)
(***************************************************************************)
\* a step of the first loop that handed a route record to its creator
RouteHandled ==
    /\ RecordEmitted
    /\ input_tensor # NoTensor
    /\ layer_configs'[Len(layer_configs')].dict.type = "route"

\* C17: a route of layers=-4 whose last created specs are not a pool's, and
\* whose offset -4 resolves, emits no node and registers no binding; the
\* three newest entries are removed from the history, so that the entry
\* that was at offset -4 is the last one, and no entry is added: the next
\* lookup of the immediately preceding specs gives what offset -4 resolved
\* to before the rewind.  (When offset -4 resolves to nothing the route
\* fails.)
C17_Rewind ==
    [][(RouteHandled /\ layer_configs'[Len(layer_configs')].dict.layers = <<-4>>) =>
        LET h == major_node_specs
        IN IF MetWalkingBack(h, -4) = {} THEN NothingAdded
           ELSE (LastCreated(h).name.type # "maxpool") =>
                    /\ pc' = "emit"
                    /\ nodes' = nodes
                    /\ param_dict' = param_dict
                    /\ Len(h) >= 4
                    /\ major_node_specs' = SubSeq(h, 1, Len(h) - 3)
                    /\ major_node_specs'[Len(major_node_specs')] = h[Len(h) - 3]
                    /\ GetPreviousNodeSpecs(major_node_specs', -1) = ResolvedBack(h, -4)]_vars

\* a rewind onto a skipped record, followed by a convolution, which takes
\* the network input: the entry that offset -4 resolved to
C17_Witness ==
    /\ pc = "emit"
    /\ Len(layer_configs) = 7
    /\ layer_configs[2].dict = Net416
    /\ layer_configs[6].dict = RouteRewind
    /\ layer_configs[7].dict = Conv64
    /\ Len(major_node_specs) = 3
    /\ ~major_node_specs[2].created_onnx_node
    /\ nodes[Len(nodes)].op = "Conv"
    /\ nodes[Len(nodes)].inputs[1] = LayerName(0, "net")

\* C18: in a route of several indices with ordinal n, an index i < -1
\* resolves to the specs of the record of ordinal n + i whenever that
\* record (a convolution here) created a node and its specs are still in
\* the history, rewinds or not: the route does not fail and the Concat's
\* input at the place of i is that record's output.
C18_CorrectedIndex ==
    [][(RouteHandled /\ Len(layer_configs'[Len(layer_configs')].dict.layers) > 1) =>
        LET record == layer_configs'[Len(layer_configs')]
            layers == record.dict.layers
            h == major_node_specs
        IN \A k \in 1..Len(layers) : \A j \in 1..Len(h) :
            (/\ layers[k] < -1
             /\ h[j].created_onnx_node
             /\ h[j].name.type = "convolutional"
             /\ h[j].name.ord = record.name.ord + layers[k]) =>
                /\ pc' = "emit"
                /\ nodes'[Len(nodes')].op = "Concat"
                /\ nodes'[Len(nodes')].inputs[k] = h[j].name]_vars

\* the records handed to _make_onnx_node that did not end the run
Handled == IF pc = "failed" /\ weights_file = NoFile
           THEN Len(layer_configs) - 1 ELSE Len(layer_configs)

\* C20 as stated: the history holds one entry for each record emitted, the
\* j-th being the outcome of the j-th record, so that no entry is ever
\* removed; an entry is created if and only if its name is not None and
\* its channels are a positive integer.
C20_AppendOnly ==
    /\ Len(major_node_specs) = Handled
    /\ \A j \in 1..Len(major_node_specs) :
        /\ major_node_specs[j].name.ord = j - 1
        /\ major_node_specs[j].created_onnx_node
            <=> (/\ major_node_specs[j].name # NoneName
                 /\ major_node_specs[j].channels # NoneChannels
                 /\ major_node_specs[j].channels > 0)

\* the route record of the step is a rewind: layers=-4 and the last created
\* specs not a pool's
IsRewind(record, h) ==
    /\ record.dict.type = "route"
    /\ record.dict.layers = <<-4>>
    /\ LastCreated(h).name.type # "maxpool"

\* C20 as amended: a record that does not end the run either appends
\* exactly one entry, named after the record, and leaves the earlier
\* entries as they are, or, being a rewind, removes the three newest
\* entries and appends none; a record that ends the run and every step
\* after the first loop leave the history as it is; the entries stay in the
\* order of their records; an entry is created if and only if its name is
\* not None and its channels are a positive integer.
C20_AppendOrRewind ==
    /\ [][LET h == major_node_specs
              record == layer_configs'[Len(layer_configs')]
          IN IF RecordEmitted /\ pc' = "emit"
             THEN IF layer_configs # <<>> /\ IsRewind(record, h)
                  THEN /\ Len(h) >= 4
                       /\ major_node_specs' = SubSeq(h, 1, Len(h) - 3)
                  ELSE /\ Len(major_node_specs') = Len(h) + 1
                       /\ SubSeq(major_node_specs', 1, Len(h)) = h
                       /\ major_node_specs'[Len(h) + 1].name.ord = record.name.ord
                       /\ major_node_specs'[Len(h) + 1].name.type = record.name.type
             ELSE major_node_specs' = h]_vars
    /\ [](\A j \in 1..Len(major_node_specs) :
            /\ \A i \in 1..(j - 1) :
                    major_node_specs[i].name.ord < major_node_specs[j].name.ord
            /\ major_node_specs[j].created_onnx_node
                <=> (/\ major_node_specs[j].name # NoneName
                     /\ major_node_specs[j].channels # NoneChannels
                     /\ major_node_specs[j].channels > 0))

\* six records, a rewind among them, and a history of two entries, one of
\* them of a skipped record
C20_Witness ==
    /\ pc = "emit"
    /\ Len(layer_configs) = 6
    /\ layer_configs[6].dict = RouteRewind
    /\ Len(major_node_specs) = 2
    /\ \E j \in 1..2 : ~major_node_specs[j].created_onnx_node

(***************************************************************************)
(* Routes of one index.                                                    *)
(***************************************************************************)
\* the index handed to the lookup for layers[0]: offset by one when it is
\* not negative
LookupIndex(record) ==
    IF record.dict.layers[1] < 0 THEN record.dict.layers[1]
    ELSE record.dict.layers[1] + 1

\* both lookups of a route of one index find created specs
LookupsResolve(record, h) ==
    /\ MetWalkingBack(h, -1) # {}
    /\ MetWalkingBack(h, LookupIndex(record)) # {}

\* the route record is the slice case: groups=2 and group_id=1
IsSlice(record) ==
    /\ "groups" \in DOMAIN record.dict
    /\ record.dict.groups = 2
    /\ record.dict.group_id = 1

\* the step added one Concat of the single input that layers[0] resolves
\* to, and specs with that input's channels
PassedThrough(record, h) ==
    /\ pc' = "emit"
    /\ nodes' = Append(nodes, [op |-> "Concat",
                               inputs |-> <<ResolvedBack(h, LookupIndex(record)).name>>,
                               output |-> record.name])
    /\ param_dict' = param_dict
    /\ Len(major_node_specs') = Len(h) + 1
    /\ major_node_specs'[Len(h) + 1].name = record.name
    /\ major_node_specs'[Len(h) + 1].created_onnx_node
    /\ major_node_specs'[Len(h) + 1].channels
            = ResolvedBack(h, LookupIndex(record)).channels

\* C19 as stated: a route of one index whose lookups resolve, and which is
\* neither a rewind nor the slice of groups=2 and group_id=1, adds exactly
\* one Concat of one input, the specs layers[0] resolves to (the index
\* offset by one when not negative), and its specs have that input's
\* channels.
C19_PassThrough ==
    [][(RouteHandled /\ Len(layer_configs'[Len(layer_configs')].dict.layers) = 1) =>
        LET record == layer_configs'[Len(layer_configs')]
            h == major_node_specs
        IN (/\ LookupsResolve(record, h)
            /\ ~IsRewind(record, h)
            /\ ~IsSlice(record)) => PassedThrough(record, h)]_vars

\* C19 as amended: a route of one index fails, adding nothing, when one of
\* its two lookups finds no created specs; otherwise, when it is not a
\* rewind, it fails, adding nothing, if it has a groups key with values
\* other than groups=2 and group_id=1, and it adds exactly one Concat of
\* the one input layers[0] resolves to, with that input's channels, if it
\* has no groups key.
C19_PassThroughOrFail ==
    [][(RouteHandled /\ Len(layer_configs'[Len(layer_configs')].dict.layers) = 1) =>
        LET record == layer_configs'[Len(layer_configs')]
            h == major_node_specs
        IN IF ~LookupsResolve(record, h) THEN NothingAdded
           ELSE IF IsRewind(record, h) \/ IsSlice(record) THEN TRUE
           ELSE IF "groups" \in DOMAIN record.dict THEN NothingAdded
           ELSE PassedThrough(record, h)]_vars

\* a route of layers=-4 right after a pool passed the network input
\* through, and a route of layers=1 before it passed through the
\* convolution before it
C19_Witness ==
    /\ pc = "emit"
    /\ Len(layer_configs) = 5
    /\ layer_configs[3].dict = RouteAbs1
    /\ layer_configs[4].dict = Maxpool2
    /\ layer_configs[5].dict = RouteRewind
    /\ Len(nodes) >= 2
    /\ nodes[Len(nodes)] = [op |-> "Concat", inputs |-> <<LayerName(0, "net")>>,
                            output |-> LayerName(4, "route")]
    /\ \E i \in 1..Len(nodes) :
            nodes[i] = [op |-> "Concat", inputs |-> <<LayerName(1, "convolutional")>>,
                        output |-> LayerName(2, "route")]
    /\ Len(major_node_specs) = 5

(***************************************************************************)
(* The nodes of a convolution record.                                      *)
(***************************************************************************)
\* the operators of the activation nodes, by the record's activation
ActivationOps(activation) ==
    CASE activation = "leaky" -> <<"LeakyRelu">>
      [] activation = "relu" -> <<"Relu">>
      [] activation = "logistic" -> <<"Sigmoid">>
      [] activation = "mish" -> <<"Softplus", "Tanh", "Mul">>
      [] OTHER -> <<>>

\* a step of the first loop that handed a convolution record to its creator
ConvolutionHandled ==
    /\ RecordEmitted
    /\ input_tensor # NoTensor
    /\ IsConvRecord(layer_configs'[Len(layer_configs')])

\* C21: a convolution record adds, in this order, one Conv node, one
\* BatchNormalization node if and only if batch_normalize=1, and the
\* activation nodes: one for leaky, relu or logistic, Softplus, Tanh and Mul
\* for mish (the Mul of the tensor before the activation with the Tanh's
\* output), none for linear and for any other activation, which does not
\* end the run.  Each node after the Conv takes the output of the one
\* before it.  The new specs are named after the output of the last node
\* added and have the record's filters as channels, whatever the channels
\* of the input.
C21_ConvNodes ==
    [][ConvolutionHandled =>
        LET record == layer_configs'[Len(layer_configs')]
            d == record.dict
            added == SubSeq(nodes', Len(nodes) + 1, Len(nodes'))
            normalized == IF HasBatchNormalize(d) THEN 1 ELSE 0
            before == added[1 + normalized].output
            ops == <<"Conv">>
                   \o (IF HasBatchNormalize(d) THEN <<"BatchNormalization">> ELSE <<>>)
                   \o ActivationOps(d.activation)
            new == major_node_specs'[Len(major_node_specs')]
        IN /\ pc' = "emit"
           /\ SubSeq(nodes', 1, Len(nodes)) = nodes
           /\ [i \in 1..Len(added) |-> added[i].op] = ops
           /\ added[1].output = record.name
           /\ added[1].inputs[1] = LastCreated(major_node_specs).name
           /\ \A i \in 2..Len(added) :
                IF added[i].op = "Mul"
                THEN added[i].inputs = <<before, added[i - 1].output>>
                ELSE added[i].inputs[1] = added[i - 1].output
           /\ Len(major_node_specs') = Len(major_node_specs) + 1
           /\ new.created_onnx_node
           /\ new.name = added[Len(added)].output
           /\ new.channels = d.filters]_vars

\* a mish convolution without normalization, of 8 filters, after a
\* normalized convolution of an activation that is not known, of 16
C21_Witness ==
    /\ pc = "emit"
    /\ Len(layer_configs) = 3
    /\ layer_configs[2].dict = ConvSwish
    /\ layer_configs[3].dict = ConvMish
    /\ [i \in 1..Len(nodes) |-> nodes[i].op]
            = <<"Conv", "BatchNormalization", "Conv", "Softplus", "Tanh", "Mul">>
    /\ nodes[3].inputs[1] = Suffixed(LayerName(1, "convolutional"), "bn")
    /\ nodes[6].inputs = <<LayerName(2, "convolutional"),
                           Suffixed(LayerName(2, "convolutional"), "tanh")>>
    /\ major_node_specs[2].channels = 16
    /\ major_node_specs[3].channels = 8
    /\ major_node_specs[3].name = Suffixed(LayerName(2, "convolutional"), "mish")

(***************************************************************************)
(* The weights file and the emission.                                      *)
(***************************************************************************)
\* the run is still emitting records or building the output heads
Emitting == pc \in {"emit", "heads"}

\* C22: the weights file is opened and read only after the last record and
\* the last output head: while records are emitted and heads are built no
\* file is open and no read has been issued; a step that opens the file or
\* issues a read adds no record, finds every head built and the final
\* Concat last in the node list or already followed by reads only; a run
\* that fails while emitting has read nothing, and does nothing more.
C22_ReadAtTheEnd ==
    /\ [](Emitting => weights_file = NoFile /\ reads = <<>>)
    /\ [][(weights_file' # weights_file \/ reads' # reads) =>
            /\ pc \in {"open", "load"}
            /\ layer_configs' = layer_configs
            /\ nodes' = nodes
            /\ Len(transposes) = Len(output_tensors)
            /\ nodes[Len(nodes)].output = OutputName
            /\ Len(reads') > Len(reads)
            /\ SubSeq(reads', 1, Len(reads)) = reads]_vars
    /\ [][(Emitting /\ pc' = "failed") => weights_file' = NoFile /\ reads' = <<>>]_vars
    /\ [][pc # "failed"]_vars

\* a run that failed after a convolution had registered its weights: the
\* file was never opened
C22_Witness ==
    /\ pc = "failed"
    /\ err = "AssertionError"
    /\ weights_file = NoFile
    /\ reads = <<>>
    /\ \E i \in 1..Len(param_dict) : IsConvKey(param_dict[i].key)

(***************************************************************************)
(* The order of the node list.                                             *)
(***************************************************************************)
\* the inputs of a node that are tensors of the graph, not parameters: the
\* first input of a Conv, BatchNormalization, Slice or Resize node, every
\* input of any other node
DataInputs(node) ==
    IF node.op \in {"Conv", "BatchNormalization", "Slice", "Resize"}
    THEN {node.inputs[1]}
    ELSE {node.inputs[k] : k \in 1..Len(node.inputs)}

\* C23: while records are emitted, every data input of every node is the
\* input tensor or the output of a node earlier in the node list, and no
\* two nodes have the same output; no node's output is the input tensor.
C23_TopologicalOrder ==
    pc = "emit" =>
        \A j \in 1..Len(nodes) :
            /\ \A x \in DataInputs(nodes[j]) :
                \/ x = input_tensor.name
                \/ \E i \in 1..(j - 1) : nodes[i].output = x
            /\ \A i \in 1..(j - 1) : nodes[i].output # nodes[j].output
            /\ nodes[j].output # input_tensor.name

\* a normalized convolution emitted after a rewind that removed the
\* entries of a convolution, an upsampling and a concatenation: its input
\* is the input tensor, and the five nodes of the removed entries precede
\* it in the node list
C23_Witness ==
    /\ pc = "emit"
    /\ Len(layer_configs) = 6
    /\ layer_configs[2].dict = Conv32
    /\ layer_configs[3].dict = Upsample2
    /\ layer_configs[4].dict = RouteConcat
    /\ layer_configs[5].dict = RouteRewind
    /\ layer_configs[6].dict = Conv32
    /\ Len(major_node_specs) = 2
    /\ [i \in 1..Len(nodes) |-> nodes[i].op]
            = <<"Conv", "BatchNormalization", "LeakyRelu", "Resize", "Concat",
                "Conv", "BatchNormalization", "LeakyRelu">>
    /\ nodes[6].inputs[1] = input_tensor.name

(***************************************************************************)
(* What a rewind leaves alone.                                             *)
(***************************************************************************)
\* a step of the first loop in which a route rewound the history
Rewound ==
    /\ RouteHandled
    /\ pc' = "emit"
    /\ IsRewind(layer_configs'[Len(layer_configs')], major_node_specs)

\* some record before the last is a route that rewound: the history is
\* shorter than the records handled
HasRewound == Len(major_node_specs) < Handled

\* C24: a rewind changes the history and nothing else of the builder: the
\* node list, the parameter registry, the input tensor, the batch size,
\* classes and num stay as they are.  No step ever removes a node or a
\* binding, so in a finished run every convolution record, also one whose
\* history entry a rewind removed, has its Conv node in the graph and its
\* binding in the registry, and the stream has been read in the order of
\* the convolution records.
C24_RewindKeepsGraph ==
    /\ [][Rewound =>
            /\ major_node_specs' # major_node_specs
            /\ UNCHANGED <<nodes, param_dict, input_tensor, batch_size, classes, num,
                           output_tensors, transposes, weights_file, reads>>]_vars
    /\ [][/\ IsPrefix(nodes, nodes')
          /\ IsPrefix([i \in 1..Len(param_dict) |-> param_dict[i].key],
                      [i \in 1..Len(param_dict') |-> param_dict'[i].key])]_vars
    /\ [](pc = "done" =>
            /\ \A k \in 1..Len(layer_configs) :
                IsConvRecord(layer_configs[k]) =>
                    /\ \E i \in 1..Len(graph_def.nodes) :
                        /\ graph_def.nodes[i].op = "Conv"
                        /\ graph_def.nodes[i].output = layer_configs[k].name
                    /\ \E i \in 1..Len(param_dict) :
                        param_dict[i].key = layer_configs[k].name
            /\ TensorReads = ExpectedReads(layer_configs))

\* a finished run of two normalized convolutions and a plain one, a rewind
\* that removed their three entries, and a plain convolution after it: the
\* history holds two entries and the stream was read for four convolutions
C24_Witness ==
    /\ pc = "done"
    /\ Len(layer_configs) = 6
    /\ layer_configs[2].dict = Conv32
    /\ layer_configs[3].dict = Conv64
    /\ layer_configs[4].dict = Conv32
    /\ layer_configs[5].dict = RouteRewind
    /\ layer_configs[6].dict = Conv64
    /\ HasRewound
    /\ Len(major_node_specs) = 2
    /\ Len(TensorReads) = 14
    /\ TensorReads[1] = GenerateParamName(LayerName(1, "convolutional"), "bn", "bias")

====
